---- MODULE Spec2Model ----
(***************************************************************************)
(* Model of the bowl pool: contests (Bowl), participants, picks, the       *)
(* kickoff lock, spread resolution, zero-sum scoring, the round_status     *)
(* migration, pick requests served concurrently and the score sync         *)
(* (ScoreUpdater).                                                         *)
(*                                                                         *)
(* Encodings.                                                              *)
(*   - An optional column (nullable Integer / DateTime) is a sequence:     *)
(*     <<>> is None, <<v>> is the value v.                                 *)
(*   - Instants are naturals 0..MaxTime.                                   *)
(*   - Bowl.spread is a Float holding a multiple of 0.5; it is stored here *)
(*     as the number of half points (spread = -7 is -3.5), and the         *)
(*     comparison of get_winner is done in half points on both sides.      *)
(*   - response is the reply of the handler or call that ran in the last   *)
(*     step (op "none" when the step was no request).                      *)
(*   - A Python str is the sequence of its characters.                     *)
(*   - round_status is the table of migrate_add_round_status.py: <<>> while*)
(*     the table does not exist, else <<rows>>, rows a function from round *)
(*     name to the row.                                                    *)
(*   - lock_seen is a history variable: the lock decisions observed so far.*)
(*   - reqs holds the requests in flight in the specification that splits  *)
(*     a handler into its read and its commit.                             *)
(***************************************************************************)
EXTENDS Integers, Sequences, FiniteSets, TLC

VARIABLES bowls, participants, picks, override_datetime, wall, response,
          round_status, lock_seen, reqs

vars == <<bowls, participants, picks, override_datetime, wall, response,
          round_status, lock_seen, reqs>>

\* ---------------------------------------------------------------- bounds
MaxBowls == 2
MaxParticipants == 2
MaxTime == 2

BowlIds == 1..MaxBowls
ParticipantIds == 1..MaxParticipants
Times == 0..MaxTime

None == <<>>
Some(v) == <<v>>
IsNone(o) == o = <<>>
Val(o) == o[1]

Sides == {"favored", "opponent"}
Statuses == {"not_started", "in_progress", "final", "canceled"}


\* ------------------------------------------------------------------ str
\* Python str operations on sequences of characters.
UpperCase == <<"A", "B", "C", "D", "E", "F", "G", "H", "I", "J", "K", "L", "M", "N", "O", "P", "Q", "R", "S", "T", "U", "V", "W", "X", "Y", "Z">>
LowerCase == <<"a", "b", "c", "d", "e", "f", "g", "h", "i", "j", "k", "l", "m", "n", "o", "p", "q", "r", "s", "t", "u", "v", "w", "x", "y", "z">>

lower_char(c) ==
  IF \E i \in 1..Len(UpperCase) : UpperCase[i] = c
  THEN LowerCase[CHOOSE i \in 1..Len(UpperCase) : UpperCase[i] = c]
  ELSE c

\* s.lower()
lower(s) == [i \in 1..Len(s) |-> lower_char(s[i])]

\* sub in s
contains(sub, s) ==
  \E i \in 0..(Len(s) - Len(sub)) : SubSeq(s, i + 1, i + Len(sub)) = sub

\* s.replace(old, ''): the occurrences of old are removed left to right.
RECURSIVE remove(_, _)
remove(s, old) ==
  IF Len(s) < Len(old) THEN s
  ELSE IF SubSeq(s, 1, Len(old)) = old
       THEN remove(SubSeq(s, Len(old) + 1, Len(s)), old)
       ELSE <<Head(s)>> \o remove(Tail(s), old)

\* s.strip()
RECURSIVE lstrip(_)
lstrip(s) == IF s # <<>> /\ Head(s) = " " THEN lstrip(Tail(s)) ELSE s
RECURSIVE rstrip(_)
rstrip(s) ==
  IF s # <<>> /\ s[Len(s)] = " " THEN rstrip(SubSeq(s, 1, Len(s) - 1)) ELSE s
strip(s) == rstrip(lstrip(s))

\* Team names: the names an administrator enters and the displayName values
\* of the scoreboard feed.
ohio_state == <<"O", "h", "i", "o", " ", "S", "t", "a", "t", "e">>
ohio_state_buckeyes == <<"O", "h", "i", "o", " ", "S", "t", "a", "t", "e", " ", "B", "u", "c", "k", "e", "y", "e", "s">>
texas == <<"T", "e", "x", "a", "s">>
texas_longhorns == <<"T", "e", "x", "a", "s", " ", "L", "o", "n", "g", "h", "o", "r", "n", "s">>
miami == <<"M", "i", "a", "m", "i">>
miami_oh == <<"M", "i", "a", "m", "i", " ", "(", "O", "H", ")">>
miami_oh_redhawks == <<"M", "i", "a", "m", "i", " ", "(", "O", "H", ")", " ", "R", "e", "d", "H", "a", "w", "k", "s">>
miami_hurricanes == <<"M", "i", "a", "m", "i", " ", "H", "u", "r", "r", "i", "c", "a", "n", "e", "s">>
toledo_rockets == <<"T", "o", "l", "e", "d", "o", " ", "R", "o", "c", "k", "e", "t", "s">>

\* ------------------------------------------------------------ models.py
\* A freshly inserted Bowl row: column defaults of models.py.
NewBowl(dt, sp, favored_team, opponent) ==
  [datetime_utc |-> dt, spread |-> sp,
   favored_team |-> favored_team, opponent |-> opponent,
   favored_team_score |-> None, opponent_score |-> None,
   status |-> "not_started", is_ignored |-> FALSE]

NewParticipant == [is_active |-> FALSE]

Pick(p, b, t) == [participant_id |-> p, bowl_id |-> b, picked_team |-> t]

\* Mutant of get_winner: the missing-score test comes before the
\* canceled/ignored test.
get_winner_scores_first(bowl) ==
  IF IsNone(bowl.favored_team_score) \/ IsNone(bowl.opponent_score) THEN "None"
  ELSE IF bowl.status = "canceled" \/ bowl.is_ignored THEN "push"
  ELSE IF bowl.status # "final" THEN "None"
  ELSE LET favored_adjusted == 2 * Val(bowl.favored_team_score) + bowl.spread
           opponent_score == 2 * Val(bowl.opponent_score)
       IN IF favored_adjusted > opponent_score THEN "favored"
          ELSE IF favored_adjusted < opponent_score THEN "opponent"
          ELSE "push"

\* Mutant of get_winner: the test that the game is final is missing.
get_winner_no_final_test(bowl) ==
  IF bowl.status = "canceled" \/ bowl.is_ignored THEN "push"
  ELSE IF IsNone(bowl.favored_team_score) \/ IsNone(bowl.opponent_score) THEN "None"
  ELSE LET favored_adjusted == 2 * Val(bowl.favored_team_score) + bowl.spread
           opponent_score == 2 * Val(bowl.opponent_score)
       IN IF favored_adjusted > opponent_score THEN "favored"
          ELSE IF favored_adjusted < opponent_score THEN "opponent"
          ELSE "push"

\* Mutant of get_winner: the spread is truncated to whole points (int(spread))
\* before it is added.
get_winner_int_spread(bowl) ==
  IF bowl.status = "canceled" \/ bowl.is_ignored THEN "push"
  ELSE IF IsNone(bowl.favored_team_score) \/ IsNone(bowl.opponent_score) THEN "None"
  ELSE IF bowl.status # "final" THEN "None"
  ELSE LET whole == IF bowl.spread >= 0 THEN bowl.spread \div 2
                    ELSE -((-bowl.spread) \div 2)
           favored_adjusted == Val(bowl.favored_team_score) + whole
           opponent_score == Val(bowl.opponent_score)
       IN IF favored_adjusted > opponent_score THEN "favored"
          ELSE IF favored_adjusted < opponent_score THEN "opponent"
          ELSE "push"

\* Bowl.get_winner: "None" stands for Python's None.
get_winner(bowl) ==
  IF bowl.status = "canceled" \/ bowl.is_ignored THEN "push"
  ELSE IF IsNone(bowl.favored_team_score) \/ IsNone(bowl.opponent_score) THEN "None"
  ELSE IF bowl.status # "final" THEN "None"
  ELSE LET favored_adjusted == 2 * Val(bowl.favored_team_score) + bowl.spread
           opponent_score == 2 * Val(bowl.opponent_score)
       IN IF favored_adjusted > opponent_score THEN "favored"
          ELSE IF favored_adjusted < opponent_score THEN "opponent"
          ELSE "push"

\* --------------------------------------------------------------- app.py
get_current_datetime ==
  IF ~IsNone(override_datetime) THEN Val(override_datetime) ELSE wall

\* Bowl.query.order_by(Bowl.datetime_utc).first()
first_bowl ==
  IF DOMAIN bowls = {} THEN None
  ELSE Some(CHOOSE b \in DOMAIN bowls :
              \A c \in DOMAIN bowls : bowls[b].datetime_utc <= bowls[c].datetime_utc)

\* Mutant of picks_are_locked: the lock starts strictly after the kickoff.
picks_are_locked_after_kickoff ==
  IF ~IsNone(first_bowl)
  THEN get_current_datetime > bowls[Val(first_bowl)].datetime_utc
  ELSE FALSE

picks_are_locked ==
  IF ~IsNone(first_bowl)
  THEN get_current_datetime >= bowls[Val(first_bowl)].datetime_utc
  ELSE FALSE

\* The reply of a handler: its name, the HTTP status, and the body (the error
\* text of a JSON error reply, the value returned by a function call).
Reply(op, code, body) == [op |-> op, code |-> code, body |-> body]

PicksOf(p) == {k \in picks : k.participant_id = p}

\* Mutant of save_pick: the bowl is not looked up before the pick is
\* written.
save_pick_no_bowl_lookup(p, bowl_id, picked_team) ==
  /\ UNCHANGED <<bowls, override_datetime, wall>>
  /\ IF picks_are_locked
     THEN /\ response' = Reply("save_pick", 400, "Picks are locked")
          /\ UNCHANGED <<participants, picks>>
     ELSE IF bowl_id = 0 \/ picked_team \notin Sides
     THEN /\ response' = Reply("save_pick", 400, "Invalid data")
          /\ UNCHANGED <<participants, picks>>
     ELSE IF p \notin DOMAIN participants
     THEN /\ response' = Reply("save_pick", 500, "AttributeError")
          /\ UNCHANGED <<participants, picks>>
     ELSE LET existing == {k \in picks : k.participant_id = p /\ k.bowl_id = bowl_id}
              newPicks == (picks \ existing) \cup {Pick(p, bowl_id, picked_team)}
              total_bowls == Cardinality(DOMAIN bowls)
              total_picks == Cardinality({k \in newPicks : k.participant_id = p})
          IN /\ picks' = newPicks
             /\ participants' = [participants EXCEPT ![p].is_active = (total_picks = total_bowls)]
             /\ response' = Reply("save_pick", 200, "")

\* POST /api/save-pick by the participant of the session. bowl_id 0 is a
\* missing (falsy) bowl_id of the JSON body.
save_pick(p, bowl_id, picked_team) ==
  /\ UNCHANGED <<bowls, override_datetime, wall>>
  /\ IF picks_are_locked
     THEN /\ response' = Reply("save_pick", 400, "Picks are locked")
          /\ UNCHANGED <<participants, picks>>
     ELSE IF bowl_id = 0 \/ picked_team \notin Sides
     THEN /\ response' = Reply("save_pick", 400, "Invalid data")
          /\ UNCHANGED <<participants, picks>>
     ELSE IF bowl_id \notin DOMAIN bowls
     THEN /\ response' = Reply("save_pick", 404, "Bowl game not found")
          /\ UNCHANGED <<participants, picks>>
     ELSE IF p \notin DOMAIN participants
     THEN \* get_current_participant() is None: participant.id raises
          /\ response' = Reply("save_pick", 500, "AttributeError")
          /\ UNCHANGED <<participants, picks>>
     ELSE LET existing == {k \in picks : k.participant_id = p /\ k.bowl_id = bowl_id}
              newPicks == (picks \ existing) \cup {Pick(p, bowl_id, picked_team)}
              total_bowls == Cardinality(DOMAIN bowls)
              total_picks == Cardinality({k \in newPicks : k.participant_id = p})
          IN /\ picks' = newPicks
             /\ participants' = [participants EXCEPT ![p].is_active = (total_picks = total_bowls)]
             /\ response' = Reply("save_pick", 200, "")

\* Mutant of clear_picks: the lock is not consulted.
clear_picks_no_lock_check(p) ==
  /\ UNCHANGED <<bowls, override_datetime, wall>>
  /\ IF p \notin DOMAIN participants
     THEN /\ response' = Reply("clear_picks", 500, "AttributeError")
          /\ UNCHANGED <<participants, picks>>
     ELSE /\ picks' = picks \ PicksOf(p)
          /\ participants' = [participants EXCEPT ![p].is_active = FALSE]
          /\ response' = Reply("clear_picks", 200, "")

\* POST /api/clear-picks
clear_picks(p) ==
  /\ UNCHANGED <<bowls, override_datetime, wall>>
  /\ IF picks_are_locked
     THEN /\ response' = Reply("clear_picks", 400, "Picks are locked")
          /\ UNCHANGED <<participants, picks>>
     ELSE IF p \notin DOMAIN participants
     THEN /\ response' = Reply("clear_picks", 500, "AttributeError")
          /\ UNCHANGED <<participants, picks>>
     ELSE /\ picks' = picks \ PicksOf(p)
          /\ participants' = [participants EXCEPT ![p].is_active = FALSE]
          /\ response' = Reply("clear_picks", 200, "")

\* Mutant of randomize_picks: every bowl gets a new random pick, the bowls
\* that have one included.
randomize_picks_all_bowls(p, choice) ==
  /\ UNCHANGED <<bowls, override_datetime, wall>>
  /\ IF picks_are_locked
     THEN /\ response' = Reply("randomize_picks", 400, "Picks are locked")
          /\ UNCHANGED <<participants, picks>>
     ELSE IF p \notin DOMAIN participants
     THEN /\ response' = Reply("randomize_picks", 500, "AttributeError")
          /\ UNCHANGED <<participants, picks>>
     ELSE /\ picks' = (picks \ PicksOf(p)) \cup {Pick(p, b, choice[b]) : b \in DOMAIN bowls}
          /\ participants' = [participants EXCEPT ![p].is_active = TRUE]
          /\ response' = Reply("randomize_picks", 200, "")

\* POST /api/randomize-picks; choice is the outcome of random.choice for each
\* bowl that has no pick yet.
randomize_picks(p, choice) ==
  /\ UNCHANGED <<bowls, override_datetime, wall>>
  /\ IF picks_are_locked
     THEN /\ response' = Reply("randomize_picks", 400, "Picks are locked")
          /\ UNCHANGED <<participants, picks>>
     ELSE IF p \notin DOMAIN participants
     THEN /\ response' = Reply("randomize_picks", 500, "AttributeError")
          /\ UNCHANGED <<participants, picks>>
     ELSE LET current_picks == {k.bowl_id : k \in PicksOf(p)}
              missing == DOMAIN bowls \ current_picks
          IN /\ picks' = picks \cup {Pick(p, b, choice[b]) : b \in missing}
             /\ participants' = [participants EXCEPT ![p].is_active = TRUE]
             /\ response' = Reply("randomize_picks", 200, "")

\* POST /admin/bowls, action=add: the new row gets an unused id.
admin_bowls_add(b, dt, sp, favored_team, opponent) ==
  /\ b \notin DOMAIN bowls
  /\ favored_team # <<>> /\ opponent # <<>>
  /\ bowls' = [c \in DOMAIN bowls \cup {b} |->
                IF c = b THEN NewBowl(dt, sp, favored_team, opponent) ELSE bowls[c]]
  /\ response' = Reply("admin_bowls", 302, "")
  /\ UNCHANGED <<participants, picks, override_datetime, wall>>

\* POST /admin/bowls, action=edit
admin_bowls_edit(b, dt, sp, favored_team, opponent) ==
  /\ b \in DOMAIN bowls
  /\ favored_team # <<>> /\ opponent # <<>>
  /\ bowls' = [bowls EXCEPT ![b].datetime_utc = dt, ![b].spread = sp,
                            ![b].favored_team = favored_team,
                            ![b].opponent = opponent]
  /\ response' = Reply("admin_bowls", 302, "")
  /\ UNCHANGED <<participants, picks, override_datetime, wall>>

\* POST /admin/bowls, action=delete: Bowl.picks cascades 'all, delete-orphan'.
admin_bowls_delete(b) ==
  /\ b \in DOMAIN bowls
  /\ bowls' = [c \in DOMAIN bowls \ {b} |-> bowls[c]]
  /\ picks' = {k \in picks : k.bowl_id # b}
  /\ response' = Reply("admin_bowls", 302, "")
  /\ UNCHANGED <<participants, override_datetime, wall>>

\* POST /admin/scores
admin_scores(b, favored_team_score, opponent_score, status, is_ignored) ==
  /\ b \in DOMAIN bowls
  /\ bowls' = [bowls EXCEPT ![b].favored_team_score = favored_team_score,
                            ![b].opponent_score = opponent_score,
                            ![b].status = status,
                            ![b].is_ignored = is_ignored]
  /\ response' = Reply("admin_scores", 302, "")
  /\ UNCHANGED <<participants, picks, override_datetime, wall>>

\* POST /admin/participants, action=add
admin_participants_add(p) ==
  /\ p \notin DOMAIN participants
  /\ participants' = [q \in DOMAIN participants \cup {p} |->
                        IF q = p THEN NewParticipant ELSE participants[q]]
  /\ response' = Reply("admin_participants", 302, "")
  /\ UNCHANGED <<bowls, picks, override_datetime, wall>>

\* POST /admin/participants, action=delete: Participant.picks cascades.
admin_participants_delete(p) ==
  /\ p \in DOMAIN participants
  /\ participants' = [q \in DOMAIN participants \ {p} |-> participants[q]]
  /\ picks' = {k \in picks : k.participant_id # p}
  /\ response' = Reply("admin_participants", 302, "")
  /\ UNCHANGED <<bowls, override_datetime, wall>>

\* POST /admin/test-mode, action=set
admin_test_mode_set(override_dt) ==
  /\ override_datetime' = Some(override_dt)
  /\ response' = Reply("admin_test_mode", 302, "")
  /\ UNCHANGED <<bowls, participants, picks, wall>>

\* POST /admin/test-mode, action=clear
admin_test_mode_clear ==
  /\ override_datetime' = None
  /\ response' = Reply("admin_test_mode", 302, "")
  /\ UNCHANGED <<bowls, participants, picks, wall>>

\* Bowl.query.order_by(Bowl.datetime_utc).all() over the bowl ids in S
\* (rows with equal kickoff come in id order).
RECURSIVE OrderedBowls(_)
OrderedBowls(S) ==
  IF S = {} THEN << >>
  ELSE LET b == CHOOSE x \in S : \A y \in S :
                   \/ bowls[x].datetime_utc < bowls[y].datetime_utc
                   \/ bowls[x].datetime_utc = bowls[y].datetime_utc /\ x <= y
       IN <<b>> \o OrderedBowls(S \ {b})

\* pick_dict.get(participant.id) for the picks of bowl b.
pick_dict(b, p) ==
  LET rows == {k \in picks : k.bowl_id = b /\ k.participant_id = p}
  IN IF rows = {} THEN "None" ELSE (CHOOSE k \in rows : TRUE).picked_team

winners(b, active, winner) == {p \in active : pick_dict(b, p) = winner}

\* Mutant of losers: the losers are counted among all participants, the
\* inactive ones included.
losers_all(b, active, winner) ==
  {p \in DOMAIN participants : pick_dict(b, p) # winner /\ pick_dict(b, p) # "None"}

losers(b, active, winner) ==
  {p \in active : pick_dict(b, p) # winner /\ pick_dict(b, p) # "None"}

\* Mutant of bowl_score: a loser loses one point, whatever the number of winners.
bowl_score_loser_one(b, active, p) ==
  LET winner == get_winner(bowls[b])
  IN IF winner \in {"None", "push"} THEN 0
     ELSE IF p \in winners(b, active, winner)
          THEN Cardinality(losers(b, active, winner))
     ELSE IF p \in losers(b, active, winner) THEN -1
     ELSE 0

\* Mutant of bowl_score: the `continue` of the undetermined case is missing, so
\* the contest is scored with winner None (the participants without a pick
\* "win", those with a pick "lose").
bowl_score_no_continue(b, active, p) ==
  LET winner == get_winner(bowls[b])
  IN IF winner = "push" THEN 0
     ELSE IF p \in winners(b, active, winner)
          THEN Cardinality(losers(b, active, winner))
     ELSE IF p \in losers(b, active, winner)
          THEN -Cardinality(winners(b, active, winner))
     ELSE 0

\* The entry scores[participant.id][bowl.id] that one iteration of the loop
\* `for bowl in bowls` of calculate_scores writes.
bowl_score(b, active, p) ==
  LET winner == get_winner(bowls[b])
      num_winners == Cardinality(winners(b, active, winner))
      num_losers == Cardinality(losers(b, active, winner))
  IN IF winner = "None" THEN 0
     ELSE IF winner = "push" THEN 0
     ELSE IF p \in winners(b, active, winner) THEN num_losers
     ELSE IF p \in losers(b, active, winner) THEN -num_winners
     ELSE 0

\* Mutant of score_bowl: the total is not updated in the loser branch.
score_bowl_no_loser_total(scores, b, active) ==
  [p \in active |->
     [bowl |-> [c \in DOMAIN scores[p].bowl \cup {b} |->
                  IF c = b THEN bowl_score(b, active, p) ELSE scores[p].bowl[c]],
      total |-> scores[p].total
                  + (IF bowl_score(b, active, p) > 0 THEN bowl_score(b, active, p) ELSE 0)]]

\* One iteration of the loop `for bowl in bowls`: scores[p] is
\* [bowl |-> the entries keyed by bowl id, total |-> the 'total' entry]; the
\* branches that add to the total are those whose entry is not forced to 0.
score_bowl(scores, b, active) ==
  [p \in active |->
     [bowl |-> [c \in DOMAIN scores[p].bowl \cup {b} |->
                  IF c = b THEN bowl_score(b, active, p) ELSE scores[p].bowl[c]],
      total |-> scores[p].total + bowl_score(b, active, p)]]

RECURSIVE score_loop(_, _, _)
score_loop(scores, order, active) ==
  IF order = << >> THEN scores
  ELSE score_loop(score_bowl(scores, Head(order), active), Tail(order), active)

calculate_scores ==
  LET active == {p \in DOMAIN participants : participants[p].is_active}
      scores == [p \in active |-> [bowl |-> << >>, total |-> 0]]
  IN score_loop(scores, OrderedBowls(DOMAIN bowls), active)

\* calculate_scores with the enumeration orders of its queries made explicit:
\* plist is the order in which Participant.query...all() returns the active
\* participants, blist the order of Bowl.query.order_by(datetime_utc).all(),
\* pick_order the order (by participant) in which Pick.query...all() returns
\* the picks of one bowl.
Orders(S) ==
  {o \in [1..Cardinality(S) -> S] : \A i, j \in 1..Cardinality(S) : o[i] = o[j] => i = j}

\* The orders order_by(Bowl.datetime_utc) admits: rows with equal kickoff
\* come in any order.
BowlOrders ==
  {o \in Orders(DOMAIN bowls) :
     \A i, j \in DOMAIN o : i < j => bowls[o[i]].datetime_utc <= bowls[o[j]].datetime_utc}

picks_for_bowl(b, pick_order) ==
  LET has(p) == \E k \in picks : k.bowl_id = b /\ k.participant_id = p
      ps == SelectSeq(pick_order, has)
  IN [i \in DOMAIN ps |-> CHOOSE k \in picks : k.bowl_id = b /\ k.participant_id = ps[i]]

\* {pick.participant_id: pick.picked_team for pick in picks_for_bowl}.get(p):
\* a later row of the same participant replaces an earlier one.
RECURSIVE pick_dict_get(_, _)
pick_dict_get(rows, p) ==
  IF rows = << >> THEN "None"
  ELSE IF rows[Len(rows)].participant_id = p THEN rows[Len(rows)].picked_team
  ELSE pick_dict_get(SubSeq(rows, 1, Len(rows) - 1), p)

winners_list(plist, rows, winner) ==
  LET won(p) == pick_dict_get(rows, p) = winner IN SelectSeq(plist, won)

losers_list(plist, rows, winner) ==
  LET lost(p) == pick_dict_get(rows, p) # winner /\ pick_dict_get(rows, p) # "None"
  IN SelectSeq(plist, lost)

in_list(x, list) == \E i \in DOMAIN list : list[i] = x

\* Mutant of bowl_entry: the score is computed in the loop that builds the
\* winners and losers lists, from the lists as filled so far.
bowl_entry_one_loop(plist, i, rows, winner) ==
  LET sofar == SubSeq(plist, 1, i)
  IN IF winner = "None" THEN 0
     ELSE IF winner = "push" THEN 0
     ELSE IF in_list(plist[i], winners_list(sofar, rows, winner))
          THEN Len(losers_list(sofar, rows, winner))
     ELSE IF in_list(plist[i], losers_list(sofar, rows, winner))
          THEN -Len(winners_list(sofar, rows, winner))
     ELSE 0

\* scores[participant.id][bowl.id] for the participant at position i of plist.
bowl_entry(plist, i, rows, winner) ==
  IF winner = "None" THEN 0
  ELSE IF winner = "push" THEN 0
  ELSE IF in_list(plist[i], winners_list(plist, rows, winner))
       THEN Len(losers_list(plist, rows, winner))
  ELSE IF in_list(plist[i], losers_list(plist, rows, winner))
       THEN -Len(winners_list(plist, rows, winner))
  ELSE 0

RECURSIVE score_loop_in(_, _, _, _)
score_loop_in(scores, blist, plist, pick_order) ==
  IF blist = << >> THEN scores
  ELSE LET b == Head(blist)
           winner == get_winner(bowls[b])
           rows == picks_for_bowl(b, pick_order)
           entry == [p \in DOMAIN scores |->
                       bowl_entry(plist, CHOOSE i \in DOMAIN plist : plist[i] = p, rows, winner)]
           next == [p \in DOMAIN scores |->
                      [bowl |-> [c \in DOMAIN scores[p].bowl \cup {b} |->
                                   IF c = b THEN entry[p] ELSE scores[p].bowl[c]],
                       total |-> scores[p].total + entry[p]]]
       IN score_loop_in(next, Tail(blist), plist, pick_order)

calculate_scores_in(plist, blist, pick_order) ==
  score_loop_in([p \in {plist[i] : i \in DOMAIN plist} |-> [bowl |-> << >>, total |-> 0]],
                blist, plist, pick_order)

\* GET /scoreboard: the score matrix handed to the page.
scoreboard ==
  /\ response' = Reply("scoreboard", 200, calculate_scores)
  /\ UNCHANGED <<bowls, participants, picks, override_datetime, wall>>

\* GET /picks: the page is rendered with the lock flag.
picks_page(p) ==
  /\ response' = IF p \in DOMAIN participants
                 THEN Reply("picks", 200, [locked |-> picks_are_locked])
                 ELSE Reply("picks", 500, "AttributeError")
  /\ UNCHANGED <<bowls, participants, picks, override_datetime, wall>>

\* A call of Bowl.get_winner on bowl b.
call_get_winner(b) ==
  /\ b \in DOMAIN bowls
  /\ response' = Reply("get_winner", 0, [bowl_id |-> b, winner |-> get_winner(bowls[b])])
  /\ UNCHANGED <<bowls, participants, picks, override_datetime, wall>>

\* The wall clock, datetime.now(timezone.utc), advances.
Tick ==
  /\ wall < MaxTime
  /\ wall' = wall + 1
  /\ response' = Reply("none", 0, "")
  /\ UNCHANGED <<bowls, participants, picks, override_datetime>>

\* ------------------------------------------------------- specification
\* The variables the request handlers of app.py neither read nor write.
aux == <<round_status, lock_seen, reqs>>

\* No round_status table, nothing observed, no request in flight.
NoAux ==
  /\ round_status = None
  /\ lock_seen = {}
  /\ reqs = << >>

\* The state after init_db.py: empty tables, no override.
Init ==
  /\ bowls = << >>
  /\ participants = << >>
  /\ picks = {}
  /\ override_datetime = None
  /\ wall = 0
  /\ response = Reply("none", 0, "")
  /\ NoAux

Next ==
  \/ \E p \in ParticipantIds, b \in 0..MaxBowls, t \in Sides \cup {"bogus"} :
       save_pick(p, b, t) /\ UNCHANGED aux
  \/ \E p \in ParticipantIds :
       clear_picks(p) /\ UNCHANGED aux
  \/ \E p \in ParticipantIds, choice \in [BowlIds -> Sides] :
       randomize_picks(p, choice) /\ UNCHANGED aux
  \/ \E b \in BowlIds, dt \in Times :
       admin_bowls_add(b, dt, 0, ohio_state, texas) /\ UNCHANGED aux
  \/ \E b \in BowlIds, dt \in Times :
       admin_bowls_edit(b, dt, 0, ohio_state, texas) /\ UNCHANGED aux
  \/ \E b \in BowlIds :
       admin_bowls_delete(b) /\ UNCHANGED aux
  \/ \E p \in ParticipantIds :
       admin_participants_add(p) /\ UNCHANGED aux
  \/ \E p \in ParticipantIds :
       admin_participants_delete(p) /\ UNCHANGED aux
  \/ \E dt \in Times :
       admin_test_mode_set(dt) /\ UNCHANGED aux
  \/ admin_test_mode_clear /\ UNCHANGED aux
  \/ \E p \in ParticipantIds :
       picks_page(p) /\ UNCHANGED aux
  \/ Tick /\ UNCHANGED aux

Spec == Init /\ [][Next]_vars

\* ------------------------------------------------- specification: picks
\* The pick handlers with every input, valid or not, while the
\* administrator adds and deletes bowls (kickoff at instant 1) and adds
\* participants, and the clock runs.
NextPicks ==
  \/ \E p \in ParticipantIds, b \in 0..MaxBowls, t \in Sides \cup {"bogus"} :
       save_pick(p, b, t) /\ UNCHANGED aux
  \/ \E p \in ParticipantIds :
       clear_picks(p) /\ UNCHANGED aux
  \/ \E p \in ParticipantIds, choice \in [BowlIds -> Sides] :
       randomize_picks(p, choice) /\ UNCHANGED aux
  \/ \E b \in BowlIds :
       admin_bowls_add(b, 1, 0, ohio_state, texas) /\ UNCHANGED aux
  \/ \E b \in BowlIds :
       admin_bowls_delete(b) /\ UNCHANGED aux
  \/ \E p \in ParticipantIds :
       admin_participants_add(p) /\ UNCHANGED aux
  \/ Tick /\ UNCHANGED aux

SpecPicks == Init /\ [][NextPicks]_vars

\* ------------------------------------------------ specification: rounds
\* migrate_add_round.py gives every bowl the column default: no code sets
\* another round.
bowl_round(b) == "first_round"

\* migrate_add_round_status.py: creates the round_status table once, with one
\* row per round that has a bowl; first_round starts locked.
migrate ==
  /\ round_status' =
       IF round_status # None THEN round_status
       ELSE Some([r \in {bowl_round(b) : b \in DOMAIN bowls} |->
                   [is_locked |-> (r = "first_round"),
                    display_order |-> IF r = "first_round" THEN 1 ELSE 999]])
  /\ response' = Reply("migrate", 0, TRUE)
  /\ UNCHANGED <<bowls, participants, picks, override_datetime, wall, lock_seen, reqs>>

\* The is_locked flag of the round of bowl b (no row: not locked).
round_is_locked(b) ==
  /\ round_status # None
  /\ bowl_round(b) \in DOMAIN Val(round_status)
  /\ Val(round_status)[bowl_round(b)].is_locked

\* The lock check of a pick-writing handler, recorded with the two signals
\* of the state it ran in: for each bowl in bs, whether the kickoff lock
\* held, whether the bowl's round was locked, and whether the handler
\* answered that picks are locked.
lock_decision(op, bs) ==
  lock_seen' = lock_seen \cup
    {[global |-> picks_are_locked, round |-> round_is_locked(b),
      locked |-> (response'.code = 400 /\ response'.body = "Picks are locked")] :
       b \in bs}

\* MaxBowls bowls that kick off at instant 1 and one participant; the pick
\* handlers run before and after kickoff (test mode can set the clock
\* back), before and after the migration.
InitRound ==
  /\ bowls = [b \in BowlIds |-> NewBowl(1, 0, ohio_state, texas)]
  /\ participants = [p \in {1} |-> NewParticipant]
  /\ picks = {}
  /\ override_datetime = None
  /\ wall = 0
  /\ response = Reply("none", 0, "")
  /\ NoAux

NextRound ==
  \/ \E b \in BowlIds, t \in Sides :
       /\ save_pick(1, b, t)
       /\ lock_decision("save_pick", {b})
       /\ UNCHANGED <<round_status, reqs>>
  \/ /\ clear_picks(1)
     /\ lock_decision("clear_picks", DOMAIN bowls)
     /\ UNCHANGED <<round_status, reqs>>
  \/ \E choice \in [BowlIds -> Sides] :
       /\ randomize_picks(1, choice)
       /\ lock_decision("randomize_picks", DOMAIN bowls)
       /\ UNCHANGED <<round_status, reqs>>
  \/ migrate
  \/ \E dt \in Times :
       admin_test_mode_set(dt) /\ UNCHANGED aux
  \/ admin_test_mode_clear /\ UNCHANGED aux
  \/ Tick /\ UNCHANGED aux

SpecRound == InitRound /\ [][NextRound]_vars

\* ------------------------------------------- specification: concurrency
\* Requests served at the same time.  A pick handler is split where another
\* request's commit can fall: its begin step runs the lock check and the
\* queries (app.py reads), its commit step flushes the pending rows and
\* commits.  The storage layer checks UniqueConstraint('participant_id',
\* 'bowl_id') when a row is flushed.
MaxRequests == 2

RequestIds == 1..MaxRequests

start(r, req) == [x \in DOMAIN reqs \cup {r} |-> IF x = r THEN req ELSE reqs[x]]

finish(r) == [x \in DOMAIN reqs \ {r} |-> reqs[x]]

\* Mutant of uq_participant_bowl: the table has no unique constraint.
uq_participant_bowl_absent(rows) == TRUE

\* models.py: UniqueConstraint on (participant_id, bowl_id) lets the rows be
\* inserted only if no stored row has the same pair.
uq_participant_bowl(rows) ==
  \A k \in rows : ~ \E j \in picks :
     j.participant_id = k.participant_id /\ j.bowl_id = k.bowl_id

\* save_pick up to the choice between update and insert (app.py:286-318).
save_pick_begin(r, p, bowl_id, picked_team) ==
  /\ r \notin DOMAIN reqs
  /\ p \in DOMAIN participants
  /\ IF picks_are_locked
     THEN /\ response' = Reply("save_pick", 400, "Picks are locked")
          /\ UNCHANGED reqs
     ELSE IF bowl_id = 0 \/ picked_team \notin Sides
     THEN /\ response' = Reply("save_pick", 400, "Invalid data")
          /\ UNCHANGED reqs
     ELSE IF bowl_id \notin DOMAIN bowls
     THEN /\ response' = Reply("save_pick", 404, "Bowl game not found")
          /\ UNCHANGED reqs
     ELSE /\ reqs' = start(r, [op |-> "save_pick", p |-> p, bowl_id |-> bowl_id,
                               picked_team |-> picked_team,
                               existing_pick |-> (\E k \in picks :
                                  k.participant_id = p /\ k.bowl_id = bowl_id),
                               stale |-> FALSE])
          /\ response' = Reply("none", 0, "")
  /\ UNCHANGED <<bowls, participants, picks, override_datetime, wall,
                 round_status, lock_seen>>

\* save_pick from the flush to the commit (app.py:320-338): an UPDATE of
\* the row that was read (StaleDataError if it was deleted meanwhile) or an
\* INSERT (IntegrityError if the pair is stored by now).
save_pick_commit(r) ==
  /\ r \in DOMAIN reqs
  /\ reqs[r].op = "save_pick"
  /\ LET q == reqs[r]
         row == Pick(q.p, q.bowl_id, q.picked_team)
         flushed == IF q.existing_pick THEN ~ q.stale ELSE uq_participant_bowl({row})
         new_picks ==
           IF q.existing_pick
           THEN {k \in picks : ~ (k.participant_id = q.p /\ k.bowl_id = q.bowl_id)}
                  \cup {row}
           ELSE picks \cup {row}
         total_picks == Cardinality({k \in new_picks : k.participant_id = q.p})
         total_bowls == Cardinality(DOMAIN bowls)
     IN IF flushed
        THEN /\ picks' = new_picks
             /\ participants' =
                  [participants EXCEPT ![q.p].is_active = (total_picks = total_bowls)]
             /\ response' = Reply("save_pick", 200, "")
        ELSE /\ UNCHANGED <<picks, participants>>
             /\ response' = Reply("save_pick", 500,
                   IF q.existing_pick THEN "StaleDataError" ELSE "IntegrityError")
  /\ reqs' = finish(r)
  /\ UNCHANGED <<bowls, override_datetime, wall, round_status, lock_seen>>

\* clear_picks up to the lock check (app.py:345-349).
clear_picks_begin(r, p) ==
  /\ r \notin DOMAIN reqs
  /\ p \in DOMAIN participants
  /\ IF picks_are_locked
     THEN /\ response' = Reply("clear_picks", 400, "Picks are locked")
          /\ UNCHANGED reqs
     ELSE /\ reqs' = start(r, [op |-> "clear_picks", p |-> p])
          /\ response' = Reply("none", 0, "")
  /\ UNCHANGED <<bowls, participants, picks, override_datetime, wall,
                 round_status, lock_seen>>

\* clear_picks from the DELETE to the commit (app.py:351-359); a save_pick
\* in flight that read one of the deleted rows now holds a stale row.
clear_picks_commit(r) ==
  /\ r \in DOMAIN reqs
  /\ reqs[r].op = "clear_picks"
  /\ LET p == reqs[r].p
     IN /\ picks' = {k \in picks : k.participant_id # p}
        /\ participants' = [participants EXCEPT ![p].is_active = FALSE]
        /\ reqs' = [x \in DOMAIN reqs \ {r} |->
                      IF reqs[x].op = "save_pick" /\ reqs[x].p = p
                        THEN [reqs[x] EXCEPT !.stale = reqs[x].existing_pick]
                        ELSE reqs[x]]
  /\ response' = Reply("clear_picks", 200, "")
  /\ UNCHANGED <<bowls, override_datetime, wall, round_status, lock_seen>>

\* randomize_picks up to the read of the current picks (app.py:366-376).
randomize_picks_begin(r, p) ==
  /\ r \notin DOMAIN reqs
  /\ p \in DOMAIN participants
  /\ IF picks_are_locked
     THEN /\ response' = Reply("randomize_picks", 400, "Picks are locked")
          /\ UNCHANGED reqs
     ELSE /\ reqs' = start(r, [op |-> "randomize_picks", p |-> p,
                               current_picks |-> {k.bowl_id : k \in PicksOf(p)}])
          /\ response' = Reply("none", 0, "")
  /\ UNCHANGED <<bowls, participants, picks, override_datetime, wall,
                 round_status, lock_seen>>

\* randomize_picks from the loop to the commit (app.py:378-399): a row for
\* every bowl that had no pick when the picks were read.
randomize_picks_commit(r, choice) ==
  /\ r \in DOMAIN reqs
  /\ reqs[r].op = "randomize_picks"
  /\ LET p == reqs[r].p
         rows == {Pick(p, b, choice[b]) : b \in DOMAIN bowls \ reqs[r].current_picks}
     IN IF uq_participant_bowl(rows)
        THEN /\ picks' = picks \cup rows
             /\ participants' = [participants EXCEPT ![p].is_active = TRUE]
             /\ response' = Reply("randomize_picks", 200, "")
        ELSE /\ UNCHANGED <<picks, participants>>
             /\ response' = Reply("randomize_picks", 500, "IntegrityError")
  /\ reqs' = finish(r)
  /\ UNCHANGED <<bowls, override_datetime, wall, round_status, lock_seen>>

\* MaxBowls bowls that kick off at instant 1 and one participant, up to
\* MaxRequests of whose requests are served at a time.
InitConc ==
  /\ bowls = [b \in BowlIds |-> NewBowl(1, 0, ohio_state, texas)]
  /\ participants = [p \in {1} |-> NewParticipant]
  /\ picks = {}
  /\ override_datetime = None
  /\ wall = 0
  /\ response = Reply("none", 0, "")
  /\ NoAux

NextConc ==
  \/ \E r \in RequestIds, b \in BowlIds, t \in Sides : save_pick_begin(r, 1, b, t)
  \/ \E r \in RequestIds : save_pick_commit(r)
  \/ \E r \in RequestIds : clear_picks_begin(r, 1)
  \/ \E r \in RequestIds : clear_picks_commit(r)
  \/ \E r \in RequestIds : randomize_picks_begin(r, 1)
  \/ \E r \in RequestIds, choice \in [BowlIds -> Sides] : randomize_picks_commit(r, choice)
  \/ Tick /\ UNCHANGED aux

SpecConc == InitConc /\ [][NextConc]_vars

\* ------------------------------------------------------ score_updater.py
\* The scoreboard feed.  A game carries competitions; a competition carries
\* competitors (team.displayName, score) and status.type.name.  A score is
\* absent, a string that int() parses, or a string that int() refuses.
NoScore == [kind |-> "none"]
NumScore(n) == [kind |-> "num", n |-> n]
TextScore == [kind |-> "text"]

Competitor(displayName, score) == [displayName |-> displayName, score |-> score]

Game(c1, c2, status_name) ==
  [competitions |-> <<[competitors |-> <<c1, c2>>, status_name |-> status_name]>>]

\* An event with a single competitor, and one without competitions.
GameOfOne(c1, status_name) ==
  [competitions |-> <<[competitors |-> <<c1>>, status_name |-> status_name]>>]

GameWithoutCompetition == [competitions |-> << >>]

\* displayName of a competitor without a name: the key is missing or the
\* name is '' (both read as '' at lines 161 and 116).
empty_name == << >>

\* displayName of a competitor whose "team" is null in the JSON:
\* comp.get('team', {}) is None and None.get raises AttributeError.  The
\* marker is no string of characters.
null_team == <<"None">>

suffix_football == <<" ", "f", "o", "o", "t", "b", "a", "l", "l">>
word_university == <<"u", "n", "i", "v", "e", "r", "s", "i", "t", "y">>
word_college == <<"c", "o", "l", "l", "e", "g", "e">>

normalize_team_name(name) ==
  strip(remove(remove(remove(lower(name), suffix_football), word_university),
               word_college))

\* Mutant of teams_match: only the exact match counts.
teams_match_exact_only(espn_name, bowl_name) ==
  normalize_team_name(espn_name) = normalize_team_name(bowl_name)

teams_match(espn_name, bowl_name) ==
  LET espn_normalized == normalize_team_name(espn_name)
      bowl_normalized == normalize_team_name(bowl_name)
  IN \/ espn_normalized = bowl_normalized
     \/ contains(espn_normalized, bowl_normalized)
     \/ contains(bowl_normalized, espn_normalized)

\* _teams_match tabulated over the names that occur, so that it is computed
\* once per pair of names.
TeamNames ==
  {ohio_state, ohio_state_buckeyes, texas, texas_longhorns, miami, miami_oh,
   miami_oh_redhawks, miami_hurricanes, toledo_rockets, empty_name}

teams_match_table ==
  [espn_name \in TeamNames, bowl_name \in TeamNames |-> teams_match(espn_name, bowl_name)]

kw_final == <<"f", "i", "n", "a", "l">>
kw_complete == <<"c", "o", "m", "p", "l", "e", "t", "e">>
kw_progress == <<"p", "r", "o", "g", "r", "e", "s", "s">>
kw_live == <<"l", "i", "v", "e">>
kw_scheduled == <<"s", "c", "h", "e", "d", "u", "l", "e", "d">>
kw_pre == <<"p", "r", "e">>
kw_cancel == <<"c", "a", "n", "c", "e", "l">>
kw_postpone == <<"p", "o", "s", "t", "p", "o", "n", "e">>

\* Mutant of map_espn_status: the name is not lowered before the tests.
map_espn_status_no_lower(espn_status) ==
  IF contains(kw_final, espn_status) \/ contains(kw_complete, espn_status) THEN "final"
  ELSE IF contains(kw_progress, espn_status) \/ contains(kw_live, espn_status)
       THEN "in_progress"
  ELSE IF contains(kw_scheduled, espn_status) \/ contains(kw_pre, espn_status)
       THEN "not_started"
  ELSE IF contains(kw_cancel, espn_status) \/ contains(kw_postpone, espn_status)
       THEN "canceled"
  ELSE "not_started"

map_espn_status(espn_status) ==
  LET st == lower(espn_status)
  IN IF contains(kw_final, st) \/ contains(kw_complete, st) THEN "final"
     ELSE IF contains(kw_progress, st) \/ contains(kw_live, st) THEN "in_progress"
     ELSE IF contains(kw_scheduled, st) \/ contains(kw_pre, st) THEN "not_started"
     ELSE IF contains(kw_cancel, st) \/ contains(kw_postpone, st) THEN "canceled"
     ELSE "not_started"

\* status.type.name values of the feed.
status_final == <<"S", "T", "A", "T", "U", "S", "_", "F", "I", "N", "A", "L">>
status_in_progress == <<"S", "T", "A", "T", "U", "S", "_", "I", "N", "_", "P", "R", "O", "G", "R", "E", "S", "S">>
status_scheduled == <<"S", "T", "A", "T", "U", "S", "_", "S", "C", "H", "E", "D", "U", "L", "E", "D">>
status_canceled == <<"S", "T", "A", "T", "U", "S", "_", "C", "A", "N", "C", "E", "L", "E", "D">>

\* _map_espn_status(status_type) of line 111 tabulated the same way; the
\* argument was lowered at line 108.
StatusNames == {status_final, status_in_progress, status_scheduled, status_canceled}

new_status_table == [name \in StatusNames |-> map_espn_status(lower(name))]

\* The tests of lines 149-157 of _find_matching_game passed: the game has a
\* competition with exactly two competitors.
has_two_competitors(game) ==
  /\ game.competitions # <<>>
  /\ Len(game.competitions[1].competitors) = 2

\* The list of team names (lines 160-163) cannot be built: the team of a
\* competitor is null.
team_names_raise(game) ==
  /\ has_two_competitors(game)
  /\ \E i \in 1..2 : game.competitions[1].competitors[i].displayName = null_team

\* favored_match and opponent_match (lines 166-169).
both_teams_match(game, bowl) ==
  /\ has_two_competitors(game)
  /\ ~ team_names_raise(game)
  /\ \E i \in 1..2 :
       teams_match_table[game.competitions[1].competitors[i].displayName, bowl.favored_team]
  /\ \E i \in 1..2 :
       teams_match_table[game.competitions[1].competitors[i].displayName, bowl.opponent]

\* How the loop of _find_matching_game ends at the game of index first: it
\* raises or returns the game.
scan_end(espn_games, first) ==
  IF team_names_raise(espn_games[first]) THEN -1 ELSE first

\* The loop of _find_matching_game, which ends at the first of the games of
\* the indices in ending, or after the last game.
scan(espn_games, ending) ==
  IF ending = {} THEN 0
  ELSE scan_end(espn_games, CHOOSE i \in ending : \A j \in ending : i <= j)

\* The index in espn_games of the game _find_matching_game returns, 0 for
\* None, -1 when the scan raises before it returns.
find_matching_game(bowl, espn_games) ==
  scan(espn_games,
       {i \in 1..Len(espn_games) :
          team_names_raise(espn_games[i]) \/ both_teams_match(espn_games[i], bowl)})

\* The dict team_scores as the sequence of its items: the competitors with
\* a score, one item per displayName (a second competitor of the same name
\* overwrites the first one's score).
team_scores(competitors) ==
  LET scored == SelectSeq(competitors, LAMBDA c : c.score.kind # "none")
  IN IF Len(scored) = 2 /\ scored[1].displayName = scored[2].displayName
     THEN <<scored[2]>>
     ELSE scored

\* The loop over team_scores.items(): favored_score and opponent_score after
\* the items from index i on.
RECURSIVE match_scores(_, _, _, _, _)
match_scores(bowl, items, i, favored_score, opponent_score) ==
  IF i > Len(items)
  THEN [favored_score |-> favored_score, opponent_score |-> opponent_score]
  ELSE IF teams_match_table[items[i].displayName, bowl.favored_team]
       THEN match_scores(bowl, items, i + 1, Some(items[i].score.n), opponent_score)
  ELSE IF teams_match_table[items[i].displayName, bowl.opponent]
       THEN match_scores(bowl, items, i + 1, favored_score, Some(items[i].score.n))
  ELSE match_scores(bowl, items, i + 1, favored_score, opponent_score)

\* What _update_bowl_from_espn takes from the matched game: raised is the
\* exception of int(score) that its except clause swallows.
game_data(bowl, game) ==
  LET competition == game.competitions[1]
      competitors == competition.competitors
      raised == \E i \in 1..Len(competitors) : competitors[i].score.kind = "text"
      scores == IF raised THEN [favored_score |-> None, opponent_score |-> None]
                ELSE match_scores(bowl, team_scores(competitors), 1, None, None)
  IN [new_status |-> new_status_table[competition.status_name],
      raised |-> raised,
      favored_score |-> scores.favored_score,
      opponent_score |-> scores.opponent_score]

\* Lines 133-140 of _update_bowl_from_espn, with the data d taken from the
\* game.
set_result(bowl, d) ==
  IF d.raised THEN [updated |-> FALSE, bowl |-> bowl]
  ELSE IF ~ IsNone(d.favored_score) /\ ~ IsNone(d.opponent_score)
  THEN [updated |-> TRUE,
        bowl |-> [bowl EXCEPT !.favored_team_score = d.favored_score,
                              !.opponent_score = d.opponent_score,
                              !.status = d.new_status]]
  ELSE [updated |-> FALSE, bowl |-> bowl]

\* Lines 90-144 of _update_bowl_from_espn, g being what _find_matching_game
\* returned.
update_bowl_from_game(bowl, espn_games, g) ==
  IF g <= 0 THEN [updated |-> FALSE, bowl |-> bowl]
  ELSE IF espn_games[g].competitions = <<>>
         \/ Len(espn_games[g].competitions[1].competitors) # 2
  THEN [updated |-> FALSE, bowl |-> bowl]
  ELSE set_result(bowl, game_data(bowl, espn_games[g]))

\* Mutant of update_bowl_from_espn: the status is taken from the matched
\* game even when a score is missing.
update_bowl_from_espn_status_always(bowl, espn_games) ==
  LET g == find_matching_game(bowl, espn_games)
  IN IF g <= 0 THEN [updated |-> FALSE, bowl |-> bowl]
     ELSE LET d == game_data(bowl, espn_games[g])
          IN IF d.raised THEN [updated |-> FALSE, bowl |-> bowl]
             ELSE IF ~ IsNone(d.favored_score) /\ ~ IsNone(d.opponent_score)
             THEN [updated |-> TRUE,
                   bowl |-> [bowl EXCEPT !.favored_team_score = d.favored_score,
                                         !.opponent_score = d.opponent_score,
                                         !.status = d.new_status]]
             ELSE [updated |-> FALSE, bowl |-> [bowl EXCEPT !.status = d.new_status]]

\* Mutant of update_bowl_from_espn: the scores of the game are added to the
\* scores the bowl has.
update_bowl_from_espn_accumulate(bowl, espn_games) ==
  LET g == find_matching_game(bowl, espn_games)
  IN IF g <= 0 THEN [updated |-> FALSE, bowl |-> bowl]
     ELSE LET d == game_data(bowl, espn_games[g])
              sum(old, new) == IF IsNone(old) THEN new ELSE Some(Val(old) + Val(new))
          IN IF d.raised THEN [updated |-> FALSE, bowl |-> bowl]
             ELSE IF ~ IsNone(d.favored_score) /\ ~ IsNone(d.opponent_score)
             THEN [updated |-> TRUE,
                   bowl |-> [bowl EXCEPT
                     !.favored_team_score = sum(bowl.favored_team_score, d.favored_score),
                     !.opponent_score = sum(bowl.opponent_score, d.opponent_score),
                     !.status = d.new_status]]
             ELSE [updated |-> FALSE, bowl |-> bowl]

\* Mutant of update_bowl_from_espn: an updated bowl is also counted again
\* (is_ignored is reset).
update_bowl_from_espn_unignore(bowl, espn_games) ==
  LET g == find_matching_game(bowl, espn_games)
  IN IF g <= 0 THEN [updated |-> FALSE, bowl |-> bowl]
     ELSE LET d == game_data(bowl, espn_games[g])
          IN IF d.raised THEN [updated |-> FALSE, bowl |-> bowl]
             ELSE IF ~ IsNone(d.favored_score) /\ ~ IsNone(d.opponent_score)
             THEN [updated |-> TRUE,
                   bowl |-> [bowl EXCEPT !.favored_team_score = d.favored_score,
                                         !.opponent_score = d.opponent_score,
                                         !.status = d.new_status,
                                         !.is_ignored = FALSE]]
             ELSE [updated |-> FALSE, bowl |-> bowl]

\* _update_bowl_from_espn: the return value and the bowl as it leaves (when
\* _find_matching_game raises, the exception leaves with the bowl untouched).
update_bowl_from_espn(bowl, espn_games) ==
  update_bowl_from_game(bowl, espn_games, find_matching_game(bowl, espn_games))

\* Mutant of active_bowls: every bowl is a candidate.
active_bowls_all(bs) == DOMAIN bs

\* The bowls update_scores selects.
active_bowls(bs) == {b \in DOMAIN bs : bs[b].status \in {"not_started", "in_progress"}}

\* Mutant of fetch_espn_games: a failed request is sent once more.
fetch_espn_games_retry(fetched) ==
  [espn_games |-> IF fetched.ok THEN fetched.events ELSE <<>>,
   requests |-> IF fetched.ok THEN 1 ELSE 2]

\* _fetch_espn_games: one requests.get; fetched is what the request met, the
\* events of the feed (ok) or a RequestException (timeout, connection error,
\* error status), for which the result is the empty list.
fetch_espn_games(fetched) ==
  [espn_games |-> IF fetched.ok THEN fetched.events ELSE <<>>,
   requests |-> 1]

\* update_scores on the bowls bs: the bowls it commits, the count it logs,
\* the number of requests it sent and where it returned.  An exception of
\* _find_matching_game (called at line 88, before the try of
\* _update_bowl_from_espn) ends the loop at line 46 and reaches the except
\* clause of line 54: the session, with the bowls updated so far, is rolled
\* back.
update_scores_run(bs, fetched) ==
  IF active_bowls(bs) = {}
  THEN [bowls |-> bs, updated_count |-> 0, requests |-> 0, outcome |-> "no_active_bowls"]
  ELSE LET f == fetch_espn_games(fetched)
       IN IF f.espn_games = <<>>
          THEN [bowls |-> bs, updated_count |-> 0, requests |-> f.requests,
                outcome |-> "no_games"]
          ELSE IF \E b \in active_bowls(bs) : find_matching_game(bs[b], f.espn_games) < 0
          THEN [bowls |-> bs, updated_count |-> 0, requests |-> f.requests,
                outcome |-> "rolled_back"]
          ELSE LET upd == [b \in active_bowls(bs) |->
                             update_bowl_from_espn(bs[b], f.espn_games)]
               IN [bowls |-> [b \in DOMAIN bs |->
                                IF b \in DOMAIN upd THEN upd[b].bowl ELSE bs[b]],
                   updated_count |-> Cardinality({b \in DOMAIN upd : upd[b].updated}),
                   requests |-> f.requests,
                   outcome |-> "committed"]

\* ScoreUpdater.update_scores, one invocation; the reply records what the
\* invocation met and logged.
update_scores(fetched) ==
  LET run == update_scores_run(bowls, fetched)
  IN /\ bowls' = run.bowls
     /\ response' = Reply("update_scores", 0,
                          [fetched |-> fetched, updated_count |-> run.updated_count,
                           requests |-> run.requests, outcome |-> run.outcome])
     /\ UNCHANGED <<participants, picks, override_datetime, wall,
                    round_status, lock_seen, reqs>>

\* --------------------------------------------------- specification: sync
\* The bowls have fixed team names and a status and an ignored flag drawn
\* from all values, no scores yet; one participant has picked every bowl.
\* update_scores runs against feeds of up to MaxEvents games.
MaxEvents == 2


SyncTeams(b) ==
  IF b = 2 THEN [favored_team |-> miami, opponent |-> miami_oh]
  ELSE [favored_team |-> ohio_state, opponent |-> texas]

\* Games of the feed: a final and a running game of bowl 1 in either team
\* order, one without a score, one with a score that is no number, a
\* canceled one, and two games with one of the Miami teams.
SyncGames ==
  {Game(Competitor(ohio_state_buckeyes, NumScore(2)),
        Competitor(texas_longhorns, NumScore(1)), status_final),
   Game(Competitor(texas_longhorns, NumScore(0)),
        Competitor(ohio_state_buckeyes, NumScore(1)), status_in_progress),
   Game(Competitor(ohio_state_buckeyes, NoScore),
        Competitor(texas_longhorns, NumScore(0)), status_scheduled),
   Game(Competitor(ohio_state_buckeyes, TextScore),
        Competitor(texas_longhorns, NumScore(0)), status_in_progress),
   Game(Competitor(texas_longhorns, NumScore(0)),
        Competitor(ohio_state_buckeyes, NumScore(0)), status_canceled),
   Game(Competitor(miami_oh_redhawks, NumScore(1)),
        Competitor(toledo_rockets, NumScore(2)), status_final),
   Game(Competitor(miami_hurricanes, NumScore(2)),
        Competitor(miami_oh_redhawks, NumScore(1)), status_in_progress)}

Feeds == UNION {[1..n -> SyncGames] : n \in 0..MaxEvents}

FetchResults == {[ok |-> FALSE]} \cup {[ok |-> TRUE, events |-> es] : es \in Feeds}

InitSync ==
  /\ \E st \in [BowlIds -> Statuses], ig \in BOOLEAN :
       bowls = [b \in BowlIds |->
                  [NewBowl(0, 0, SyncTeams(b).favored_team, SyncTeams(b).opponent)
                     EXCEPT !.status = st[b], !.is_ignored = (ig /\ b = 1)]]
  /\ participants = [p \in {1} |-> [is_active |-> TRUE]]
  /\ picks = {Pick(1, b, "favored") : b \in BowlIds}
  /\ override_datetime = None
  /\ wall = 0
  /\ response = Reply("none", 0, "")
  /\ NoAux

NextSync ==
  \E fetched \in FetchResults : update_scores(fetched)

SpecSync == InitSync /\ [][NextSync]_vars

\* ------------------------------------------- specification: overlapping sync
\* update_scores in the steps between which another invocation can run: the
\* query of the active bowls and the request to the feed, the processing of
\* one bowl, and the flush and commit.  An invocation in flight holds in
\* reqs the rows as its session loaded them (loaded), the same objects with
\* the attributes it has set (session) and the bowls still to process (todo).
OverlapTeams(b) ==
  IF b = 2 THEN [favored_team |-> miami, opponent |-> toledo_rockets]
  ELSE [favored_team |-> ohio_state, opponent |-> texas]

\* Games of the feed at two later moments of the game of bowl 1, and the
\* final game of bowl 2.
OverlapGames ==
  {Game(Competitor(ohio_state_buckeyes, NumScore(1)),
        Competitor(texas_longhorns, NumScore(1)), status_in_progress),
   Game(Competitor(ohio_state_buckeyes, NumScore(2)),
        Competitor(texas_longhorns, NumScore(0)), status_final),
   Game(Competitor(miami_hurricanes, NumScore(1)),
        Competitor(toledo_rockets, NumScore(0)), status_final)}

OverlapResults ==
  {[ok |-> FALSE]} \cup
  {[ok |-> TRUE, events |-> es] : es \in UNION {[1..n -> OverlapGames] : n \in 0..MaxEvents}}

\* The rows of a query without order_by, in the order of their ids.
RECURSIVE in_id_order(_)
in_id_order(S) ==
  IF S = {} THEN << >>
  ELSE LET b == CHOOSE x \in S : \A y \in S : x <= y
       IN <<b>> \o in_id_order(S \ {b})

\* update_scores up to the loop (lines 27-45): it returns at once without
\* active bowls or without games.
sync_begin(r, fetched) ==
  /\ r \notin DOMAIN reqs
  /\ IF active_bowls(bowls) = {} \/ fetch_espn_games(fetched).espn_games = << >>
     THEN /\ LET run == update_scores_run(bowls, fetched)
             IN response' = Reply("update_scores", 0,
                                  [fetched |-> fetched, updated_count |-> 0,
                                   requests |-> run.requests, outcome |-> run.outcome])
          /\ UNCHANGED reqs
     ELSE /\ reqs' = start(r, [op |-> "update_scores", fetched |-> fetched,
                               loaded |-> [b \in active_bowls(bowls) |-> bowls[b]],
                               session |-> [b \in active_bowls(bowls) |-> bowls[b]],
                               todo |-> in_id_order(active_bowls(bowls)),
                               updated_count |-> 0])
          /\ response' = Reply("none", 0, "")
  /\ UNCHANGED <<bowls, participants, picks, override_datetime, wall,
                 round_status, lock_seen>>

\* One turn of the loop of lines 46-49: _update_bowl_from_espn sets the
\* attributes of the session's object; an exception of _find_matching_game
\* ends the invocation with a rollback (lines 54-56).
sync_process(r) ==
  /\ r \in DOMAIN reqs
  /\ reqs[r].op = "update_scores"
  /\ reqs[r].todo # << >>
  /\ LET q == reqs[r]
         b == Head(q.todo)
         espn_games == fetch_espn_games(q.fetched).espn_games
     IN IF find_matching_game(q.session[b], espn_games) < 0
        THEN /\ reqs' = finish(r)
             /\ response' = Reply("update_scores", 0,
                                  [fetched |-> q.fetched, updated_count |-> 0,
                                   requests |-> 1, outcome |-> "rolled_back"])
        ELSE LET u == update_bowl_from_espn(q.session[b], espn_games)
             IN /\ reqs' = [reqs EXCEPT ![r].session[b] = u.bowl,
                                        ![r].todo = Tail(q.todo),
                                        ![r].updated_count =
                                           q.updated_count + (IF u.updated THEN 1 ELSE 0)]
                /\ response' = Reply("none", 0, "")
  /\ UNCHANGED <<bowls, participants, picks, override_datetime, wall,
                 round_status, lock_seen>>

\* The flush of db.session.commit(): for every object of the session one
\* UPDATE of the row of its id that sets the columns whose value differs
\* from the loaded one (an attribute set to the value it was loaded with is
\* no change and is not part of the statement); the other columns of the
\* row stay as they are stored.
flush(stored, loaded, session) ==
  [b \in DOMAIN stored |->
     IF b \notin DOMAIN session THEN stored[b]
     ELSE [stored[b] EXCEPT
             !.status = IF session[b].status # loaded[b].status
                        THEN session[b].status ELSE @,
             !.favored_team_score =
                IF session[b].favored_team_score # loaded[b].favored_team_score
                THEN session[b].favored_team_score ELSE @,
             !.opponent_score =
                IF session[b].opponent_score # loaded[b].opponent_score
                THEN session[b].opponent_score ELSE @]]

\* The commit of line 51, after the loop.
sync_commit(r) ==
  /\ r \in DOMAIN reqs
  /\ reqs[r].op = "update_scores"
  /\ reqs[r].todo = << >>
  /\ bowls' = flush(bowls, reqs[r].loaded, reqs[r].session)
  /\ response' = Reply("update_scores", 0,
                       [fetched |-> reqs[r].fetched,
                        updated_count |-> reqs[r].updated_count,
                        requests |-> 1, outcome |-> "committed"])
  /\ reqs' = finish(r)
  /\ UNCHANGED <<participants, picks, override_datetime, wall, round_status, lock_seen>>

\* Bowl 1 is in progress at 1-0, as an earlier invocation left it; the other
\* bowls have not started.
InitOverlap ==
  /\ bowls = [b \in BowlIds |->
                LET bowl == NewBowl(0, 0, OverlapTeams(b).favored_team,
                                    OverlapTeams(b).opponent)
                IN IF b = 1
                   THEN [bowl EXCEPT !.status = "in_progress",
                                     !.favored_team_score = Some(1),
                                     !.opponent_score = Some(0)]
                   ELSE bowl]
  /\ participants = [p \in {1} |-> [is_active |-> TRUE]]
  /\ picks = {Pick(1, b, "favored") : b \in BowlIds}
  /\ override_datetime = None
  /\ wall = 0
  /\ response = Reply("none", 0, "")
  /\ NoAux

NextOverlap ==
  \/ \E r \in RequestIds, fetched \in OverlapResults : sync_begin(r, fetched)
  \/ \E r \in RequestIds : sync_process(r)
  \/ \E r \in RequestIds : sync_commit(r)

SpecOverlap == InitOverlap /\ [][NextOverlap]_vars

\* --------------------------------------------- specification: feed shape
\* update_scores on the bowls of InitSync against feeds of up to MaxEvents
\* events, well-formed or not: a final game of bowl 1, an event without
\* competitions, one with a single competitor, one with a competitor without
\* a name, one without a score, one whose score is no number, and one whose
\* competitor has a null team.
FeedGames ==
  {Game(Competitor(ohio_state_buckeyes, NumScore(2)),
        Competitor(texas_longhorns, NumScore(1)), status_final),
   GameWithoutCompetition,
   GameOfOne(Competitor(ohio_state_buckeyes, NumScore(2)), status_final),
   Game(Competitor(empty_name, NumScore(3)),
        Competitor(texas_longhorns, NumScore(0)), status_in_progress),
   Game(Competitor(ohio_state_buckeyes, NoScore),
        Competitor(texas_longhorns, NumScore(0)), status_scheduled),
   Game(Competitor(ohio_state_buckeyes, TextScore),
        Competitor(texas_longhorns, NumScore(0)), status_in_progress),
   Game(Competitor(null_team, NumScore(1)),
        Competitor(texas_longhorns, NumScore(0)), status_final)}

FeedResults ==
  {[ok |-> FALSE]} \cup
  {[ok |-> TRUE, events |-> es] : es \in UNION {[1..n -> FeedGames] : n \in 0..MaxEvents}}

NextFeed ==
  \E fetched \in FeedResults : update_scores(fetched)

SpecFeed == InitSync /\ [][NextFeed]_vars

\* ------------------------------------------- specification: status map
\* _map_espn_status is called on the names made of up to MaxTokens tokens:
\* the keywords in either case, alone, combined and inside other words.
MaxTokens == 2

StatusTokens ==
  {<<"S", "T", "A", "T", "U", "S", "_">>,
   <<"F", "I", "N", "A", "L">>,
   <<"F", "i", "n", "a", "l">>,
   <<"c", "o", "m", "p", "l", "e", "t", "e">>,
   <<"I", "N", "_", "P", "R", "O", "G", "R", "E", "S", "S">>,
   <<"L", "i", "v", "e">>,
   <<"S", "C", "H", "E", "D", "U", "L", "E", "D">>,
   <<"p", "r", "e">>,
   <<"C", "A", "N", "C", "E", "L", "E", "D">>,
   <<"P", "o", "s", "t", "p", "o", "n", "e", "d">>,
   <<"H", "A", "L", "F", "T", "I", "M", "E">>,
   <<"E", "N", "D", "_", "P", "E", "R", "I", "O", "D">>}

RECURSIVE join(_)
join(tokens) == IF tokens = <<>> THEN <<>> ELSE Head(tokens) \o join(Tail(tokens))

EspnStatusNames ==
  UNION {{join(ts) : ts \in [1..n -> StatusTokens]} : n \in 0..MaxTokens}

call_map_espn_status(espn_status) ==
  /\ response' = Reply("map_espn_status", 0,
                       [espn_status |-> espn_status, status |-> map_espn_status(espn_status)])
  /\ UNCHANGED <<bowls, participants, picks, override_datetime, wall,
                 round_status, lock_seen, reqs>>

NextStatus ==
  \E espn_status \in EspnStatusNames : call_map_espn_status(espn_status)

SpecStatus == Init /\ [][NextStatus]_vars

\* -------------------------------------------- specification: resolution
\* One bowl whose fields are drawn from the bounded ranges; get_winner is
\* called on it.
ResolveMaxScore == 24
ResolveMaxSpread == 8

ResolveScores == {None} \cup {Some(n) : n \in 0..ResolveMaxScore}
ResolveSpreads == (-ResolveMaxSpread)..ResolveMaxSpread

InitResolve ==
  /\ \E sp \in ResolveSpreads, fs \in ResolveScores, os \in ResolveScores,
        st \in Statuses, ig \in BOOLEAN :
       bowls = [b \in {1} |-> [datetime_utc |-> 0, spread |-> sp,
                               favored_team |-> ohio_state, opponent |-> texas,
                               favored_team_score |-> fs, opponent_score |-> os,
                               status |-> st, is_ignored |-> ig]]
  /\ participants = << >>
  /\ picks = {}
  /\ override_datetime = None
  /\ wall = 0
  /\ response = Reply("none", 0, "")
  /\ NoAux

NextResolve ==
  \E b \in BowlIds : call_get_winner(b) /\ UNCHANGED aux

SpecResolve == InitResolve /\ [][NextResolve]_vars

\* ------------------------------------------------ specification: scoring
\* ScoreParticipants participants and MaxBowls bowls; the result fields of
\* the bowls, the picks and the active flags are drawn from bounded sets
\* (every such state is one the handlers above can produce); the scoreboard
\* is computed on it and the administrator rewrites results.
ScoreParticipants == 3

ScoreParticipantIds == 1..ScoreParticipants

ScoreBowl(fs, os, st, ig) ==
  [datetime_utc |-> 0, spread |-> 0,
   favored_team |-> ohio_state, opponent |-> texas, favored_team_score |-> fs,
   opponent_score |-> os, status |-> st, is_ignored |-> ig]

\* Result states of a bowl with spread 0: final with the favored side ahead,
\* level and behind; in progress; final with a score missing; ignored.
ScoreBowlStates ==
  {ScoreBowl(Some(1), Some(0), "final", FALSE),
   ScoreBowl(Some(1), Some(1), "final", FALSE),
   ScoreBowl(Some(1), Some(2), "final", FALSE),
   ScoreBowl(Some(1), Some(0), "in_progress", FALSE),
   ScoreBowl(Some(1), None, "final", FALSE),
   ScoreBowl(Some(1), Some(0), "final", TRUE)}

InitScore ==
  /\ bowls \in [BowlIds -> ScoreBowlStates]
  /\ participants \in [ScoreParticipantIds -> [is_active : BOOLEAN]]
  /\ \E f \in [ScoreParticipantIds \X BowlIds -> Sides \cup {"None"}] :
       picks = {Pick(pb[1], pb[2], f[pb]) :
                  pb \in {x \in ScoreParticipantIds \X BowlIds : f[x] # "None"}}
  /\ override_datetime = None
  /\ wall = 0
  /\ response = Reply("none", 0, "")
  /\ NoAux

\* The results the administrator enters in this specification: final 1-0,
\* counted or ignored.
ScoreAdminEntries ==
  {ScoreBowl(Some(1), Some(0), "final", FALSE),
   ScoreBowl(Some(1), Some(0), "final", TRUE)}

NextScore ==
  \/ scoreboard /\ UNCHANGED aux
  \/ \E b \in BowlIds, r \in ScoreAdminEntries :
       /\ admin_scores(b, r.favored_team_score, r.opponent_score, r.status, r.is_ignored)
       /\ UNCHANGED aux

SpecScore == InitScore /\ [][NextScore]_vars

\* ------------------------------------- specification: enumeration orders
\* The scoreboard on ScoreParticipants participants and MaxBowls bowls of
\* equal kickoff: a bowl is decided for the favored side, a push or in
\* progress; every combination of picks on the first bowl, repeated on the
\* other bowls or absent there.
OrderBowlStates ==
  {ScoreBowl(Some(1), Some(0), "final", FALSE),
   ScoreBowl(Some(1), Some(1), "final", FALSE),
   ScoreBowl(Some(1), Some(0), "in_progress", FALSE)}

InitOrder ==
  /\ bowls \in [BowlIds -> OrderBowlStates]
  /\ participants \in [ScoreParticipantIds -> [is_active : BOOLEAN]]
  /\ \E f \in [ScoreParticipantIds -> Sides \cup {"None"}], others \in SUBSET {1} :
       picks = {Pick(p, b, f[p]) :
                  p \in {x \in ScoreParticipantIds : f[x] # "None"},
                  b \in {x \in BowlIds : x = 1 \/ others # {}}}
  /\ override_datetime = None
  /\ wall = 0
  /\ response = Reply("none", 0, "")
  /\ NoAux

SpecOrder == InitOrder /\ [][NextScore]_vars

\* ------------------------------------------- specification: team names
\* _teams_match is called on the pairs of these names: plain names, names
\* with a mascot, with the words University, College and Football, in upper
\* case, padded with blanks, and a name that is only such a word.
ohio_state_university == <<"O", "h", "i", "o", " ", "S", "t", "a", "t", "e", " ", "U", "n", "i", "v", "e", "r", "s", "i", "t", "y">>
ohio_state_upper == <<"O", "H", "I", "O", " ", "S", "T", "A", "T", "E">>
boston_college == <<"B", "o", "s", "t", "o", "n", " ", "C", "o", "l", "l", "e", "g", "e">>
boston_college_eagles == <<"B", "o", "s", "t", "o", "n", " ", "C", "o", "l", "l", "e", "g", "e", " ", "E", "a", "g", "l", "e", "s">>
army_football == <<"A", "r", "m", "y", " ", "F", "o", "o", "t", "b", "a", "l", "l">>
texas_padded == <<" ", "T", "e", "x", "a", "s", " ">>
college == <<"C", "o", "l", "l", "e", "g", "e">>

MatchNames ==
  {ohio_state, ohio_state_buckeyes, texas_longhorns, miami, miami_oh,
   ohio_state_university, ohio_state_upper, boston_college, boston_college_eagles,
   army_football, texas_padded, college}

call_teams_match(espn_name, bowl_name) ==
  /\ response' = Reply("teams_match", 0,
                       [espn_name |-> espn_name, bowl_name |-> bowl_name,
                        result |-> teams_match(espn_name, bowl_name)])
  /\ UNCHANGED <<bowls, participants, picks, override_datetime, wall,
                 round_status, lock_seen, reqs>>

NextMatch ==
  \E espn_name \in MatchNames, bowl_name \in MatchNames :
     call_teams_match(espn_name, bowl_name)

SpecMatch == Init /\ [][NextMatch]_vars

\* ================================================================ claims
RECURSIVE Sum(_, _)
Sum(f, S) ==
  IF S = {} THEN 0
  ELSE LET x == CHOOSE y \in S : TRUE IN f[x] + Sum(f, S \ {x})

Active == {p \in DOMAIN participants : participants[p].is_active}
Outcome(b) == get_winner(bowls[b])
HasPick(p, b, t) == Pick(p, b, t) \in picks
Winners(b) == {p \in Active : HasPick(p, b, Outcome(b))}
Losers(b) == {p \in Active : \E t \in Sides \ {Outcome(b)} : HasPick(p, b, t)}
Matrix == response.body
Entry(p, b) == Matrix[p].bowl[b]
Scored == response.op = "scoreboard"

\* C1: for every contest whose outcome is Favored or Opponent, the scores of
\* that contest returned by calculate_scores sum to 0 over Winners and Losers
\* and over all active participants; the totals of all participants sum to 0.
C1_ZeroSum ==
  Scored =>
    /\ \A b \in DOMAIN bowls :
         Outcome(b) \in Sides =>
           /\ Sum([p \in Active |-> Entry(p, b)], Winners(b) \cup Losers(b)) = 0
           /\ Sum([p \in Active |-> Entry(p, b)], Active) = 0
    /\ Sum([p \in Active |-> Matrix[p].total], Active) = 0

\* C1 witness: a decided contest with two winners and one loser was scored.
C1_Witness ==
  /\ Scored
  /\ \E b \in DOMAIN bowls :
       /\ Outcome(b) \in Sides
       /\ Cardinality(Winners(b)) = 2
       /\ Cardinality(Losers(b)) = 1
       /\ \E p \in Losers(b) : Entry(p, b) = -2

\* C2: on a decided contest each winner scores |Losers|, each loser scores
\* -|Winners|, an active participant without a pick scores 0, the two sets
\* being counted among active participants only; with Winners or Losers empty
\* every score of the contest is 0.
C2_WinnerLoserScores ==
  Scored =>
    \A b \in DOMAIN bowls :
      Outcome(b) \in Sides =>
        /\ \A p \in Winners(b) : Entry(p, b) = Cardinality(Losers(b))
        /\ \A p \in Losers(b) : Entry(p, b) = -Cardinality(Winners(b))
        /\ \A p \in Active \ (Winners(b) \cup Losers(b)) : Entry(p, b) = 0
        /\ (Winners(b) = {} \/ Losers(b) = {}) => \A p \in Active : Entry(p, b) = 0

\* C2 witness: a decided contest with a winner, a loser and an active
\* participant without a pick on it.
C2_Witness ==
  /\ Scored
  /\ \E b \in DOMAIN bowls :
       /\ Outcome(b) \in Sides
       /\ Winners(b) # {}
       /\ Losers(b) # {}
       /\ \E p \in Active : \A t \in Sides : ~HasPick(p, b, t)

\* C3: on a contest whose outcome is Push or Undetermined every active
\* participant scores 0 whatever the picks are, and the contest adds nothing
\* to any total (a total is the sum of the entries of the decided contests).
C3_PushUndeterminedZero ==
  Scored =>
    /\ \A b \in DOMAIN bowls :
         Outcome(b) \in {"push", "None"} => \A p \in Active : Entry(p, b) = 0
    /\ \A p \in Active :
         Matrix[p].total =
           Sum([b \in DOMAIN bowls |-> Entry(p, b)],
               {b \in DOMAIN bowls : Outcome(b) \in Sides})

\* C3 witness: an undetermined contest on which active participants picked
\* both sides and one has no pick, next to a decided contest, was scored.
C3_Witness ==
  /\ Scored
  /\ \E b \in DOMAIN bowls :
       /\ Outcome(b) = "None"
       /\ \E p, q, r \in Active :
            /\ HasPick(p, b, "favored")
            /\ HasPick(q, b, "opponent")
            /\ \A t \in Sides : ~HasPick(r, b, t)
  /\ \E p \in Active : Matrix[p].total # 0

\* C4: the matrix has one row per active participant and no other row, each
\* row has one integer entry per existing contest plus a total, and the total
\* is the sum of the row's entries over all contests.
C4_MatrixShape ==
  Scored =>
    /\ DOMAIN Matrix = Active
    /\ \A p \in Active :
         /\ DOMAIN Matrix[p].bowl = DOMAIN bowls
         /\ \A b \in DOMAIN bowls : Entry(p, b) \in Int
         /\ Matrix[p].total \in Int
         /\ Matrix[p].total = Sum([b \in DOMAIN bowls |-> Entry(p, b)], DOMAIN bowls)

\* C4 witness: a scored state with an inactive participant and a row whose
\* two entries are both non-zero.
C4_Witness ==
  /\ Scored
  /\ DOMAIN participants \ Active # {}
  /\ \E p \in Active : \A b \in DOMAIN bowls : Entry(p, b) # 0
  /\ Cardinality(DOMAIN bowls) >= 2

Resolved == response.op = "get_winner"
ResolvedBowl == bowls[response.body.bowl_id]
Result == response.body.winner
BothScores(bowl) == ~IsNone(bowl.favored_team_score) /\ ~IsNone(bowl.opponent_score)

\* C5: get_winner returns Push for every contest that is ignored or canceled,
\* whatever the scores (present or absent), the spread and, when ignored is
\* set, the status.
C5_IgnoredOrCanceledIsPush ==
  (Resolved /\ (ResolvedBowl.is_ignored \/ ResolvedBowl.status = "canceled"))
    => Result = "push"

\* C5 witness: a canceled contest with scores 24-0 and no spread was resolved.
C5_Witness ==
  /\ Resolved
  /\ ResolvedBowl.status = "canceled"
  /\ ~ResolvedBowl.is_ignored
  /\ ResolvedBowl.favored_team_score = Some(24)
  /\ ResolvedBowl.opponent_score = Some(0)
  /\ Result = "push"

\* C6: for a contest neither ignored nor canceled, get_winner returns
\* Undetermined when the status is not final and when a score is absent; it
\* returns Favored, Opponent or Push only when final with both scores present.
C6_UndeterminedUnlessFinalWithScores ==
  (Resolved /\ ~ResolvedBowl.is_ignored /\ ResolvedBowl.status # "canceled") =>
      /\ ResolvedBowl.status # "final" => Result = "None"
      /\ ~BothScores(ResolvedBowl) => Result = "None"
      /\ Result \in {"favored", "opponent", "push"} =>
           ResolvedBowl.status = "final" /\ BothScores(ResolvedBowl)

\* C6 witness: a contest in progress at 10-7 was resolved as undetermined.
C6_Witness ==
  /\ Resolved
  /\ ~ResolvedBowl.is_ignored
  /\ ResolvedBowl.status = "in_progress"
  /\ ResolvedBowl.favored_team_score = Some(10)
  /\ ResolvedBowl.opponent_score = Some(7)
  /\ Result = "None"

\* C7: for a final, non-ignored contest with both scores present, get_winner
\* returns Favored when favoredScore + spread > opponentScore, Opponent when it
\* is smaller and Push when equal (spread counted in half points: the margin
\* 2 * (favored - opponent) is compared with -spread); spread -3.5 gives
\* Favored at 24-20 and Opponent at 23-20.
C7_SpreadComparison ==
  (/\ Resolved
   /\ ResolvedBowl.status = "final"
   /\ ~ResolvedBowl.is_ignored
   /\ BothScores(ResolvedBowl)) =>
      LET margin == 2 * (Val(ResolvedBowl.favored_team_score) - Val(ResolvedBowl.opponent_score))
          half_points == ResolvedBowl.spread
      IN /\ margin > -half_points => Result = "favored"
         /\ margin < -half_points => Result = "opponent"
         /\ margin = -half_points => Result = "push"
         /\ (half_points = -7 /\ margin = 8) => Result = "favored"
         /\ (half_points = -7 /\ margin = 6) => Result = "opponent"

\* C7 witness: spread -3.5, final 23-20, resolved for the opponent.
C7_Witness ==
  /\ Resolved
  /\ ResolvedBowl.status = "final"
  /\ ~ResolvedBowl.is_ignored
  /\ ResolvedBowl.spread = -7
  /\ ResolvedBowl.favored_team_score = Some(23)
  /\ ResolvedBowl.opponent_score = Some(20)
  /\ Result = "opponent"

PickWriteOps == {"save_pick", "clear_picks", "randomize_picks"}
LockedReply(op) == Reply(op, 400, "Picks are locked")

\* C8: while the picks are locked, each of save-pick, clear-picks and
\* randomize-picks is rejected with the locked error and leaves the Pick set
\* and every participant's active flag as they were.
C8_LockedWriteRejected ==
  [][(picks_are_locked /\ response'.op \in PickWriteOps) =>
       /\ response' = LockedReply(response'.op)
       /\ picks' = picks
       /\ participants' = participants]_vars

\* C8 witness: clear-picks was rejected as locked while a participant with a
\* complete pick set exists.
C8_Witness ==
  /\ picks_are_locked
  /\ response = LockedReply("clear_picks")
  /\ \E p \in DOMAIN participants : participants[p].is_active /\ PicksOf(p) # {}

Now == IF override_datetime = None THEN wall ELSE override_datetime[1]
Kickoffs == {bowls[b].datetime_utc : b \in DOMAIN bowls}
LockExpected == Kickoffs # {} /\ \A t \in Kickoffs : (\A u \in Kickoffs : t <= u) => Now >= t

\* C9: picks_are_locked is true exactly when there is a contest and now() is
\* at or after the earliest kickoff, now() being the override instant when
\* one is set and the wall clock otherwise; the lock flag of the picks page
\* is that value.
C9_LockIsKickoffReached ==
  /\ picks_are_locked <=> LockExpected
  /\ (response.op = "picks" /\ response.code = 200) => (response.body.locked <=> LockExpected)

\* C9 witness: the picks page shows locked with the override exactly at the
\* earliest of two different kickoffs while the wall clock is before it.
C9_Witness ==
  /\ response.op = "picks"
  /\ response.code = 200
  /\ response.body.locked
  /\ override_datetime # None
  /\ Cardinality(Kickoffs) = 2
  /\ \A t \in Kickoffs : Now <= t
  /\ \A t \in Kickoffs : wall < t

\* C10: in no step does the Pick set change while the picks are locked, for
\* every operation that adds, changes or removes Pick rows.
C10_NoPickChangeWhileLocked ==
  [][picks_are_locked => picks' = picks]_vars
\* C11: the lock decision of a pick write takes the kickoff lock and the
\* locked flag of the contest's round as input, and the round flag matters:
\* once the decision has been observed under all four combinations of the
\* two signals, two observations that differ only in the round flag differ
\* in the decision.
LockSeen(g, r) == {e \in lock_seen : e.global = g /\ e.round = r}

C11_RoundLockChangesDecision ==
  (\A g \in BOOLEAN, r \in BOOLEAN : LockSeen(g, r) # {}) =>
     \E g \in BOOLEAN : \E e1 \in LockSeen(g, TRUE), e2 \in LockSeen(g, FALSE) :
        e1.locked # e2.locked

\* C13: in every reachable state a participant's active flag is true exactly
\* when the participant has a pick for every existing bowl (states without
\* any bowl, where the condition is vacuous, are set aside).
Complete(p) ==
  \A b \in DOMAIN bowls : \E k \in picks : k.participant_id = p /\ k.bowl_id = b

C13_ActiveIffComplete ==
  DOMAIN bowls # {} =>
    \A p \in DOMAIN participants : participants[p].is_active <=> Complete(p)

\* C12: under every interleaving of save-pick, clear-picks and
\* randomize-picks, two requests for the same participant and bowl served at
\* the same time included, there is at most one pick per (participant, bowl),
\* and a save-pick that is accepted leaves the pair with exactly one pick, of
\* the side it sent: it replaces, it never adds a second one.
PicksFor(ps, p, b) == {k \in ps : k.participant_id = p /\ k.bowl_id = b}

OnePickPerPair(ps) ==
  \A k1 \in ps, k2 \in ps :
     (k1.participant_id = k2.participant_id /\ k1.bowl_id = k2.bowl_id) => k1 = k2

SavePickAccepted(r) ==
  /\ r \in DOMAIN reqs
  /\ reqs[r].op = "save_pick"
  /\ r \notin DOMAIN reqs'
  /\ response'.code = 200

SyncStep == response'.op = "update_scores"

\* The state is the one an invocation of update_scores left.
AfterSync == response.op = "update_scores"

Terminal(bowl) == bowl.status \in {"final", "canceled"}

HasScores(bowl) == ~ IsNone(bowl.favored_team_score) /\ ~ IsNone(bowl.opponent_score)

\* C14: when the request to the feed fails, the invocation ends with every
\* field of every bowl (and everything else) unchanged, counts nothing as
\* updated and has sent no second request.
C14_FetchFailureNoChange ==
  [][(SyncStep /\ ~ response'.body.fetched.ok) =>
       /\ bowls' = bowls
       /\ participants' = participants
       /\ picks' = picks
       /\ response'.body.updated_count = 0
       /\ response'.body.requests <= 1]_vars

\* An invocation that had bowls to update sent its one request, which failed.
C14_Witness ==
  /\ AfterSync
  /\ ~ response.body.fetched.ok
  /\ response.body.requests = 1
  /\ \E b \in DOMAIN bowls : ~ Terminal(bowls[b])

\* C15: an invocation either sets status, favored_team_score and
\* opponent_score of a bowl all three from the game it matched, whose two
\* competitors both have a numeric score, or changes none of the three.
KeepsResult(b) ==
  /\ bowls'[b].status = bowls[b].status
  /\ bowls'[b].favored_team_score = bowls[b].favored_team_score
  /\ bowls'[b].opponent_score = bowls[b].opponent_score

ResultFromMatchedGame(b) ==
  /\ response'.body.fetched.ok
  /\ LET events == response'.body.fetched.events
         g == find_matching_game(bowls[b], events)
     IN /\ g > 0
        /\ LET competition == events[g].competitions[1]
               competitors == competition.competitors
           IN /\ bowls'[b].status = new_status_table[competition.status_name]
              /\ \E i \in 1..2, j \in 1..2 :
                   /\ i # j
                   /\ competitors[i].score.kind = "num"
                   /\ competitors[j].score.kind = "num"
                   /\ bowls'[b].favored_team_score = Some(competitors[i].score.n)
                   /\ bowls'[b].opponent_score = Some(competitors[j].score.n)

C15_ResultAllOrNothing ==
  [][SyncStep =>
       \A b \in DOMAIN bowls : KeepsResult(b) \/ ResultFromMatchedGame(b)]_vars

\* An invocation updated a bowl and left another bowl, which has no scores,
\* as it was.
C15_Witness ==
  /\ AfterSync
  /\ response.body.updated_count = 1
  /\ \E b \in DOMAIN bowls : HasScores(bowls[b])
  /\ \E b \in DOMAIN bowls : ~ HasScores(bowls[b]) /\ ~ Terminal(bowls[b])

\* C16 as stated: an invocation run a second time on the same feed, with no
\* change in between, changes no field of any bowl and counts no bowl as
\* updated.
C16_SecondRunNoWrites ==
  (AfterSync /\ response.body.fetched.ok) =>
     LET again == update_scores_run(bowls, response.body.fetched)
     IN /\ again.bowls = bowls
        /\ again.updated_count = 0

\* C16, amended: an invocation run a second time on the same feed, with no
\* change in between, changes no field of any bowl (the bowls that are
\* still candidates and match a game with both scores are assigned the
\* values they have, and are counted as updated again).
C16_SecondRunChangesNoField ==
  (AfterSync /\ response.body.fetched.ok) =>
     update_scores_run(bowls, response.body.fetched).bowls = bowls

\* An invocation updated a bowl that stays a candidate: a second run on the
\* same feed assigns it again.
C16_Witness ==
  /\ AfterSync
  /\ response.body.fetched.ok
  /\ response.body.updated_count >= 1
  /\ update_scores_run(bowls, response.body.fetched).updated_count >= 1

\* C17: the game _find_matching_game returns for a bowl has one competitor
\* that matches the favored team and the other competitor that matches the
\* opponent; a game only one of whose names matches the bowl is not returned.
CoversBothSides(game, bowl) ==
  LET competitors == game.competitions[1].competitors
  IN \E i \in 1..2, j \in 1..2 :
       /\ i # j
       /\ teams_match_table[competitors[i].displayName, bowl.favored_team]
       /\ teams_match_table[competitors[j].displayName, bowl.opponent]

C17_MatchCoversBothSides ==
  (AfterSync /\ response.body.fetched.ok) =>
     \A b \in DOMAIN bowls :
        LET g == find_matching_game(bowls[b], response.body.fetched.events)
        IN g > 0 => CoversBothSides(response.body.fetched.events[g], bowls[b])

\* C19: an invocation changes no field of a bowl that is final or canceled
\* when it starts, and when every bowl is final or canceled it sends no
\* request and changes nothing.
C19_TerminalBowlsUntouched ==
  [][SyncStep =>
       /\ \A b \in DOMAIN bowls : Terminal(bowls[b]) => bowls'[b] = bowls[b]
       /\ (\A b \in DOMAIN bowls : Terminal(bowls[b])) =>
             (response'.body.requests = 0 /\ bowls' = bowls)]_vars

\* An invocation committed updates while the feed had a game, with both
\* scores, for a final bowl that has no scores: the bowl was left alone.
C19_Witness ==
  /\ AfterSync
  /\ response.body.fetched.ok
  /\ response.body.outcome = "committed"
  /\ \E b \in DOMAIN bowls :
       /\ bowls[b].status = "final"
       /\ ~ HasScores(bowls[b])
       /\ update_bowl_from_espn(bowls[b], response.body.fetched.events).updated

\* C20: an invocation changes at most favored_team_score, opponent_score and
\* status of a bowl: is_ignored, spread, the team names, the kickoff, every
\* pick and every participant stay as they were.
C20_SyncFrame ==
  [][SyncStep =>
       /\ picks' = picks
       /\ participants' = participants
       /\ override_datetime' = override_datetime
       /\ DOMAIN bowls' = DOMAIN bowls
       /\ \A b \in DOMAIN bowls :
            [bowls'[b] EXCEPT !.favored_team_score = bowls[b].favored_team_score,
                              !.opponent_score = bowls[b].opponent_score,
                              !.status = bowls[b].status] = bowls[b]]_vars

\* An invocation updated an ignored bowl that participants have picked.
C20_Witness ==
  /\ AfterSync
  /\ response.body.updated_count >= 1
  /\ \E b \in DOMAIN bowls :
       /\ bowls[b].is_ignored
       /\ HasScores(bowls[b])
       /\ \E k \in picks : k.bowl_id = b

\* C18: _map_espn_status is total and maps by keyword containment, case
\* ignored, in this order: final or complete gives final; else progress or
\* live gives in_progress; else scheduled or pre gives not_started; else
\* cancel or postpone gives canceled; else not_started.
ExpectedStatus(name) ==
  IF contains(kw_final, name) \/ contains(kw_complete, name) THEN "final"
  ELSE IF contains(kw_progress, name) \/ contains(kw_live, name) THEN "in_progress"
  ELSE IF contains(kw_scheduled, name) \/ contains(kw_pre, name) THEN "not_started"
  ELSE IF contains(kw_cancel, name) \/ contains(kw_postpone, name) THEN "canceled"
  ELSE "not_started"

C18_StatusByKeyword ==
  response.op = "map_espn_status" =>
    /\ response.body.status \in Statuses
    /\ response.body.status = ExpectedStatus(lower(response.body.espn_status))

\* A name in upper case with a cancel keyword and a final keyword: final.
C18_Witness ==
  /\ response.op = "map_espn_status"
  /\ response.body.status = "final"
  /\ response.body.espn_status # lower(response.body.espn_status)
  /\ contains(kw_cancel, lower(response.body.espn_status))
  /\ ~ contains(kw_final, response.body.espn_status)

\* ------------------------------------------------- claims: validation
\* C27: a save-pick whose side is not favored or opponent, whose bowl_id is
\* missing or whose bowl does not exist is answered with an error and leaves
\* every pick and every participant's active flag unchanged.
InvalidPick(bowl_id, picked_team) ==
  picked_team \notin Sides \/ bowl_id = 0 \/ bowl_id \notin DOMAIN bowls

C27_InvalidPickRejected ==
  [][\A p \in ParticipantIds, bowl_id \in 0..MaxBowls, picked_team \in Sides \cup {"bogus"} :
       (/\ response'.op = "save_pick"
        /\ InvalidPick(bowl_id, picked_team)
        /\ save_pick(p, bowl_id, picked_team)) =>
          /\ response'.code \in {400, 404}
          /\ picks' = picks
          /\ participants' = participants]_vars

\* A save-pick for a bowl that does not exist was refused while picks were
\* open and the participant has picks.
C27_Witness ==
  /\ response = Reply("save_pick", 404, "Bowl game not found")
  /\ picks # {}
  /\ \E p \in DOMAIN participants : participants[p].is_active

\* C28: an accepted randomize-picks of participant p keeps every pick p had,
\* adds exactly one pick, favored or opponent, for each bowl on which p had
\* none, sets p's active flag, and changes no pick and no active flag of
\* another participant; afterwards p has exactly one pick per bowl.
RandomizeEffect(p) ==
  /\ PicksOf(p) \subseteq picks'
  /\ \A k \in picks' \ picks :
       /\ k.participant_id = p
       /\ k.picked_team \in Sides
       /\ k.bowl_id \in DOMAIN bowls
       /\ PicksFor(picks, p, k.bowl_id) = {}
  /\ picks \subseteq picks'
  /\ \A b \in DOMAIN bowls : Cardinality(PicksFor(picks', p, b)) = 1
  /\ Cardinality({k \in picks' : k.participant_id = p}) = Cardinality(DOMAIN bowls)
  /\ DOMAIN participants' = DOMAIN participants
  /\ participants'[p].is_active
  /\ \A q \in DOMAIN participants \ {p} : participants'[q] = participants[q]

C28_RandomizeFillsMissing ==
  [][\A p \in ParticipantIds, choice \in [BowlIds -> Sides] :
       (/\ response' = Reply("randomize_picks", 200, "")
        /\ randomize_picks(p, choice)) => RandomizeEffect(p)]_vars

\* A randomize-picks was accepted with MaxBowls bowls; its participant has
\* picks of both sides, and another participant has a pick and is inactive.
C28_Witness ==
  /\ response = Reply("randomize_picks", 200, "")
  /\ DOMAIN bowls = BowlIds
  /\ \E p \in DOMAIN participants :
       /\ participants[p].is_active
       /\ {k.picked_team : k \in PicksOf(p)} = Sides
       /\ \E q \in DOMAIN participants \ {p} :
            PicksOf(q) # {} /\ ~ participants[q].is_active

\* C30: when requests interleave with the clock, no request commits a change
\* of picks at a moment when picks are locked: the lock check the request
\* made when it started still holds when it commits.
Commits(r) == r \in DOMAIN reqs /\ r \notin DOMAIN reqs'

C30_NoCommitWhileLocked ==
  [][\A r \in RequestIds :
       (Commits(r) /\ picks' # picks) => ~ picks_are_locked]_vars

\* C26: calculate_scores is deterministic and read-only: the matrix of a
\* scoreboard request is the same for every order in which the participants,
\* the contests and the picks are enumerated (so two requests on the same
\* records return identical matrices), and the request changes no persisted
\* record.
C26_ScoresOrderIndependent ==
  [][response'.op = "scoreboard" =>
       /\ \A plist \in Orders(Active), blist \in BowlOrders,
             pick_order \in Orders(DOMAIN participants) :
            calculate_scores_in(plist, blist, pick_order) = response'.body
       /\ bowls' = bowls
       /\ participants' = participants
       /\ picks' = picks]_vars

\* C26 witness: a scoreboard was computed with three active participants,
\* two contests of equal kickoff, and a decided contest with two winners and
\* a loser.
C26_Witness ==
  /\ Scored
  /\ Cardinality(Active) = 3
  /\ Cardinality(BowlOrders) = 2
  /\ \E b \in DOMAIN bowls :
       /\ Outcome(b) \in Sides
       /\ Cardinality(Winners(b)) = 2
       /\ Cardinality(Losers(b)) = 1
       /\ \E p \in Winners(b) : Entry(p, b) = 1

\* Competitor i of the game matches the favored team of the bowl, the other
\* competitor j its opponent, and both have a numeric score.
TwoSidedScored(game, bowl, i, j) ==
  /\ game.competitions # << >>
  /\ Len(game.competitions[1].competitors) = 2
  /\ i # j
  /\ LET competitors == game.competitions[1].competitors
     IN /\ teams_match_table[competitors[i].displayName, bowl.favored_team]
        /\ teams_match_table[competitors[j].displayName, bowl.opponent]
        /\ competitors[i].score.kind = "num"
        /\ competitors[j].score.kind = "num"

UpdatedFrom(b, game, i, j) ==
  LET competition == game.competitions[1]
  IN /\ bowls'[b].status = new_status_table[competition.status_name]
     /\ bowls'[b].favored_team_score = Some(competition.competitors[i].score.n)
     /\ bowls'[b].opponent_score = Some(competition.competitors[j].score.n)

\* C29: when the feed holds a game whose two competitors match the two
\* different sides of a candidate bowl and both have numeric scores, the
\* invocation updates the bowl from such a game (status and the score of
\* each side from the competitor matching that side), whatever games precede
\* it in the feed and whatever the order of its competitors.
C29_TwoSidedGameUpdates ==
  [][(SyncStep /\ response'.body.fetched.ok) =>
       \A b \in active_bowls(bowls) :
          LET events == response'.body.fetched.events
              good == {x \in (1..Len(events)) \X (1..2) \X (1..2) :
                         TwoSidedScored(events[x[1]], bowls[b], x[2], x[3])}
          IN good # {} =>
               \E x \in good : UpdatedFrom(b, events[x[1]], x[2], x[3])]_vars

\* The normal form of each name: lower case, without "university", "college"
\* and the word "football", without blanks at either end.
NormalForm(name) ==
  IF name = ohio_state THEN <<"o", "h", "i", "o", " ", "s", "t", "a", "t", "e">>
  ELSE IF name = ohio_state_buckeyes THEN <<"o", "h", "i", "o", " ", "s", "t", "a", "t", "e", " ", "b", "u", "c", "k", "e", "y", "e", "s">>
  ELSE IF name = texas_longhorns THEN <<"t", "e", "x", "a", "s", " ", "l", "o", "n", "g", "h", "o", "r", "n", "s">>
  ELSE IF name = miami THEN <<"m", "i", "a", "m", "i">>
  ELSE IF name = miami_oh THEN <<"m", "i", "a", "m", "i", " ", "(", "o", "h", ")">>
  ELSE IF name = ohio_state_university THEN <<"o", "h", "i", "o", " ", "s", "t", "a", "t", "e">>
  ELSE IF name = ohio_state_upper THEN <<"o", "h", "i", "o", " ", "s", "t", "a", "t", "e">>
  ELSE IF name = boston_college THEN <<"b", "o", "s", "t", "o", "n">>
  ELSE IF name = boston_college_eagles THEN <<"b", "o", "s", "t", "o", "n", " ", " ", "e", "a", "g", "l", "e", "s">>
  ELSE IF name = army_football THEN <<"a", "r", "m", "y">>
  ELSE IF name = texas_padded THEN <<"t", "e", "x", "a", "s">>
  ELSE <<>>

IsSubstring(x, y) == \E i, j \in 0..Len(y) : i <= j /\ SubSeq(y, i + 1, j) = x

\* C25: _teams_match is true exactly when the two normal forms are equal or
\* one is a substring of the other; "Ohio State Buckeyes" of the feed matches
\* the bowl's "Ohio State".
C25_TeamsMatchRule ==
  response.op = "teams_match" =>
    LET espn == NormalForm(response.body.espn_name)
        bowl == NormalForm(response.body.bowl_name)
    IN /\ response.body.result =
            (espn = bowl \/ IsSubstring(espn, bowl) \/ IsSubstring(bowl, espn))
       /\ (response.body.espn_name = ohio_state_buckeyes
             /\ response.body.bowl_name = ohio_state) => response.body.result

\* C25 witness: "Ohio State Buckeyes" was matched against "Ohio State".
C25_Witness ==
  /\ response.op = "teams_match"
  /\ response.body.espn_name = ohio_state_buckeyes
  /\ response.body.bowl_name = ohio_state
  /\ response.body.result

\* The processing of bowl b against the events fails: in matching
\* (_find_matching_game raises) or in extracting status and scores (the
\* matched game has a score that is no number).
ProcessingFails(b, events) ==
  LET g == find_matching_game(bowls[b], events)
  IN \/ g < 0
     \/ g > 0 /\ game_data(bowls[b], events[g]).raised

\* C21: when the processing of one candidate bowl fails, every other
\* candidate is still processed and its update is committed: it leaves the
\* invocation as its own processing against the feed leaves it.
C21_FailureDoesNotAbortOthers ==
  [][(SyncStep /\ response'.body.fetched.ok) =>
       LET events == response'.body.fetched.events
       IN (\E b \in active_bowls(bowls) : ProcessingFails(b, events)) =>
            \A c \in active_bowls(bowls) :
               ~ ProcessingFails(c, events) =>
                  bowls'[c] = update_bowl_from_espn(bowls[c], events).bowl]_vars

\* An event of the expected shape: a competition with exactly two
\* competitors, each with a team name that is not empty and a numeric score.
WellFormed(game) ==
  /\ game.competitions # << >>
  /\ Len(game.competitions[1].competitors) = 2
  /\ \A i \in 1..2 :
       LET c == game.competitions[1].competitors[i]
       IN c.displayName # null_team /\ c.displayName # empty_name /\ c.score.kind = "num"

\* C22: an event that is not of the expected shape is skipped without
\* error: the invocation is not aborted, no bowl is matched to such an event,
\* and the bowls end as they do on the feed without these events.
C22_MalformedEventsSkipped ==
  [][(SyncStep /\ response'.body.fetched.ok) =>
       LET events == response'.body.fetched.events
           shaped == [ok |-> TRUE, events |-> SelectSeq(events, WellFormed)]
       IN /\ response'.body.outcome # "rolled_back"
          /\ \A b \in active_bowls(bowls) :
               LET g == find_matching_game(bowls[b], events)
               IN g > 0 => WellFormed(events[g])
          /\ bowls' = update_scores_run(bowls, shaped).bowls]_vars

\* The invocations of update_scores in flight.
Syncs == {r \in DOMAIN reqs : reqs[r].op = "update_scores"}

\* The bowls invocation r has changed in its session and not yet committed.
Uncommitted(r) == {b \in DOMAIN reqs[r].session : reqs[r].session[b] # reqs[r].loaded[b]}

Triple(bowl) == <<bowl.status, bowl.favored_team_score, bowl.opponent_score>>

\* C23: when an invocation that overlapped another one commits, each bowl it
\* updated holds the complete (status, favored score, opponent score) it
\* wrote; so after both have completed the triple is that of the last
\* writer and mixes nothing from the two.
C23_LastWriteWins ==
  [][\A r \in Syncs :
       (r \notin DOMAIN reqs' /\ response'.body.outcome = "committed") =>
          \A b \in Uncommitted(r) : Triple(bowls'[b]) = Triple(reqs[r].session[b])]_vars

\* C24: every bowl's update is committed as a transaction of its own: no
\* invocation holds uncommitted changes to more than one bowl.
C24_OneBowlPerTransaction ==
  \A r \in Syncs : Cardinality(Uncommitted(r)) <= 1

====
